---- MODULE Spec2Model ----
(***************************************************************************)
(* pixcel: the 2D greedy mesher (buildTable and its helpers) of            *)
(* src/src/pixcel/convert.go, run step by step on small pixel grids.       *)
(*                                                                         *)
(* A grid is a function from <<x, y>> (0-based) to a pixel; a pixel is the *)
(* four 16-bit channels that image.Image.At(x, y).RGBA() returns.          *)
(***************************************************************************)
EXTENDS Integers, Sequences, FiniteSets, TLC

\* Grids of every shape width x height with width * height <= MaxArea.
MaxArea == 6
\* Number of buildTable calls made on the same grid.
MaxRuns == 2
\* Height of the tallest one-column grid of the cancellation runs.
MaxTall == 12
\* Longest delay list and largest frame count of the timeline runs.
MaxDelays == 3
\* Most frames of an animated source in the conversion runs.
MaxGifFrames == 6
\* Most frames of an animated source in the compositing runs.
MaxAlphaArea == 4
MaxOpts == 2
MaxCompFrames == 3

VARIABLES
    img,         \* the image handed to buildTable: [<<x, y>> -> pixel]
    width,       \* buildTable's width argument
    height,      \* buildTable's height argument
    ctxErr,      \* ctx.Err(): "nil" or "canceled"
    pc,          \* position in buildTable: "idle", "loop_y", "loop_x"
    visited,     \* visited[y][x], the local mask of the running call
    rows,        \* rows[y], the local result of the running call
    currentRow,  \* the cells appended so far on row y
    x,           \* inner loop index
    y,           \* outer loop index
    results,     \* what each finished call returned: [rows, err]
    anchors,     \* history: one record per emitted cell of the running call
    marks,       \* history: marks[y][x] = times markVisited wrote visited[y][x]
    polls,       \* history: every evaluation of ctx.Err(), in order
    cancelPos,   \* history: where the program stood when ctx was cancelled
                 \* ([pc |-> "never"] while it is not)
    fn,          \* the entry point called: "Convert", "ConvertGIF" or "none"
    apc,         \* position in Convert / ConvertGIF and their callees
    conv,        \* the Converter: [targetWidth, targetHeight, scaler, obfuscate]
    src,         \* Convert's img argument: [nil |-> TRUE] or an image
    gif,         \* ConvertGIF's g argument: [nil |-> TRUE] or a *gif.GIF
    wr,          \* the io.Writer argument: "nil", "ok" or "failing"
    canvas,      \* compositeFrames' canvas: [w, h, pix]
    snaps,       \* compositeFrames' result: the snapshots appended so far
    fi,          \* frame index of the running frame loop
    frames,      \* generateGIFHTML's frames: one gifFrameData per meshed frame
    allKeyframes,\* buildAllKeyframes' result
    out,         \* what has been written to the writer, in order
    ret,         \* what the entry point returned: "pending", "nil" or an error
    steps,       \* history: the core operations executed, in order
    kf,          \* buildAllKeyframes' frameCount argument, then its locals
    rnd          \* crypto/rand: the values its reads give, and the next read

\* The arguments and locals of buildTable, with their history.
meshVars == <<img, width, height, pc, visited, rows, currentRow, x, y,
              results, anchors, marks>>

\* The arguments and locals of Convert, ConvertGIF and their callees.
apiVars == <<fn, apc, conv, src, gif, wr, canvas, snaps, fi, frames,
             allKeyframes, out, ret, steps, kf>>

vars == <<img, width, height, ctxErr, pc, visited, rows, currentRow, x, y,
          results, anchors, marks, polls, cancelPos, fn, apc, conv, src, gif,
          wr, canvas, snaps, fi, frames, allKeyframes, out, ret, steps, kf,
          rnd>>

----------------------------------------------------------------------------
(* Inputs *)

\* color.RGBA{255,0,0,255}, color.RGBA{0,0,255,255} and color.RGBA{10,20,30,255}
\* as RGBA() reports them (each 8-bit channel v becomes v * 0x101).
Palette ==
    { [R |-> 65535, G |-> 0,    B |-> 0,     A |-> 65535],
      [R |-> 0,     G |-> 0,    B |-> 65535, A |-> 65535],
      [R |-> 2570,  G |-> 5140, B |-> 7710,  A |-> 65535] }

Coords(w, h) == (0 .. w - 1) \X (0 .. h - 1)

Shapes == { s \in (1 .. MaxArea) \X (1 .. MaxArea) : s[1] * s[2] <= MaxArea }

----------------------------------------------------------------------------
(* Pure helpers of convert.go *)

\* Mutant of colorAt: the alpha component is kept as a fourth component.
colorAtWithAlpha(im, px, py) ==
    LET p == im[<<px, py>>]
    IN  << (p.R \div 256) % 256, (p.G \div 256) % 256, (p.B \div 256) % 256,
           (p.A \div 256) % 256 >>

\* colorAt: r, g, b, _ := img.At(x, y).RGBA(); uint8(r >> 8), ...
colorAt(im, px, py) ==
    LET p == im[<<px, py>>]
    IN  << (p.R \div 256) % 256, (p.G \div 256) % 256, (p.B \div 256) % 256 >>

HexDigits ==
    << "0", "1", "2", "3", "4", "5", "6", "7",
       "8", "9", "a", "b", "c", "d", "e", "f" >>

\* %02x of a uint8: two lowercase hex digits, high nibble first.
hex2(v) == << HexDigits[(v \div 16) + 1], HexDigits[(v % 16) + 1] >>

\* fmt.Sprintf("#%02x%02x%02x", r8, g8, b8), as a sequence of characters.
sprintfColor(c) == <<"#">> \o hex2(c[1]) \o hex2(c[2]) \o hex2(c[3])

DecDigits == <<"0", "1", "2", "3", "4", "5", "6", "7", "8", "9">>

\* strconv of a natural number: its decimal digits.
RECURSIVE decimal(_)
decimal(n) ==
    IF n < 10 THEN <<DecDigits[n + 1]>>
    ELSE decimal(n \div 10) \o <<DecDigits[(n % 10) + 1]>>

\* The digits hexByte indexes: lowercase at 0..15, uppercase at 16..31.
hexByteDigits ==
    HexDigits \o << "0", "1", "2", "3", "4", "5", "6", "7",
                    "8", "9", "A", "B", "C", "D", "E", "F" >>

\* %02X of a uint8: two uppercase hex digits.
hex2Upper(v) ==
    << hexByteDigits[16 + (v \div 16) + 1], hexByteDigits[16 + (v % 16) + 1] >>

\* A source of random numbers that is never read.
NoReads == [reads |-> <<0>>, pos |-> 0]

\* randIntn(n) at the k-th read from now: 0 for n <= 0, and otherwise the
\* Uint64 of the eight bytes read, modulo n. The reads repeat after
\* Len(r.reads) of them. Every call of the program has n = 5 or n = 2, so
\* every call reads.
randIntn(r, k, n) ==
    IF n <= 0 THEN 0
    ELSE r.reads[((r.pos + k) % Len(r.reads)) + 1] % n

\* hexByte(v), its two reads being the k-th and the next: each nibble's
\* digit in lowercase or uppercase.
hexByte(v, r, k) ==
    << hexByteDigits[randIntn(r, k, 2) * 16 + (v \div 16) + 1],
       hexByteDigits[randIntn(r, k + 1, 2) * 16 + (v % 16) + 1] >>

LowerLetters == <<"a", "b", "c", "d", "g", "k", "l", "n", "o", "r", "u">>
UpperLetters == <<"A", "B", "C", "D", "G", "K", "L", "N", "O", "R", "U">>

\* strings.ToUpper and strings.ToLower of one character of a property name.
ToUpper(ch) ==
    IF \E i \in DOMAIN LowerLetters : LowerLetters[i] = ch
    THEN UpperLetters[CHOOSE i \in DOMAIN LowerLetters : LowerLetters[i] = ch]
    ELSE ch
ToLower(ch) ==
    IF \E i \in DOMAIN UpperLetters : UpperLetters[i] = ch
    THEN LowerLetters[CHOOSE i \in DOMAIN UpperLetters : UpperLetters[i] = ch]
    ELSE ch

\* "background-color"
BackgroundColor ==
    <<"b", "a", "c", "k", "g", "r", "o", "u", "n", "d", "-",
      "c", "o", "l", "o", "r">>

\* randomizeCase(str), its reads starting at the k-th from now: one read
\* for each character.
randomizeCase(str, r, k) ==
    [j \in 1 .. Len(str) |->
        IF randIntn(r, k + j - 1, 2) = 0 THEN ToUpper(str[j]) ELSE ToLower(str[j])]

\* The colors (maxC, minC), as 8-bit values, whose lightness
\* (maxC + minC) / 2 * 100 is a whole number that the float64 product falls
\* short of.
lightnessBelow ==
    { <<232, 227>>, <<233, 226>>, <<234, 225>>, <<235, 224>>, <<240, 219>>, <<241, 218>>,
      <<242, 217>>, <<243, 216>>, <<248, 211>>, <<249, 210>>, <<250, 209>>, <<251, 208>> }

\* The colors (maxC, minC), as 8-bit values, whose saturation * 100 is a
\* whole number that the float64 quotient and product fall short of.
saturationBelow ==
    { <<39, 11>>, <<41, 9>>, <<42, 33>>, <<43, 7>>, <<44, 11>>, <<47, 3>>,
      <<48, 27>>, <<49, 1>>, <<51, 49>>, <<53, 47>>, <<54, 21>>, <<57, 43>>,
      <<59, 41>>, <<61, 39>>, <<63, 37>>, <<65, 35>>, <<65, 39>>, <<65, 60>>,
      <<69, 23>>, <<69, 31>>, <<69, 51>>, <<73, 27>>, <<77, 11>>, <<77, 23>>,
      <<77, 33>>, <<77, 63>>, <<78, 22>>, <<80, 45>>, <<81, 19>>, <<81, 27>>,
      <<81, 39>>, <<81, 54>>, <<82, 18>>, <<84, 66>>, <<85, 51>>, <<86, 14>>,
      <<88, 22>>, <<89, 11>>, <<93, 7>>, <<93, 27>>, <<93, 31>>, <<93, 57>>,
      <<94, 6>>, <<95, 30>>, <<96, 54>>, <<98, 2>>, <<99, 33>>, <<99, 66>>,
      <<101, 99>>, <<102, 98>>, <<105, 15>>, <<105, 35>>, <<105, 45>>, <<105, 63>>,
      <<105, 70>>, <<105, 95>>, <<106, 94>>, <<108, 42>>, <<109, 91>>, <<111, 37>>,
      <<111, 74>>, <<112, 63>>, <<113, 87>>, <<114, 86>>, <<115, 10>>, <<117, 33>>,
      <<117, 39>>, <<117, 78>>, <<117, 83>>, <<117, 108>>, <<118, 82>>, <<121, 79>>,
      <<121, 99>>, <<122, 78>>, <<123, 41>>, <<125, 75>>, <<126, 74>>, <<129, 43>>,
      <<129, 71>>, <<129, 86>>, <<130, 70>>, <<130, 78>>, <<130, 120>>, <<133, 7>>,
      <<135, 45>>, <<135, 115>>, <<137, 63>>, <<138, 46>>, <<138, 62>>, <<138, 102>>,
      <<139, 61>>, <<145, 55>>, <<145, 87>>, <<145, 115>>, <<146, 54>>, <<147, 53>>,
      <<147, 98>>, <<147, 123>>, <<147, 138>>, <<153, 47>>, <<153, 51>>, <<153, 102>>,
      <<154, 21>>, <<154, 22>>, <<154, 46>>, <<154, 66>>, <<155, 45>>, <<155, 95>>,
      <<156, 44>>, <<157, 43>>, <<159, 53>>, <<160, 90>>, <<160, 150>>, <<161, 114>>,
      <<161, 149>>, <<162, 38>>, <<162, 54>>, <<162, 63>>, <<162, 78>>, <<162, 100>>,
      <<162, 148>>, <<163, 37>>, <<163, 117>>, <<163, 147>>, <<164, 36>>, <<165, 35>>,
      <<167, 143>>, <<168, 110>>, <<168, 142>>, <<169, 126>>, <<169, 141>>, <<170, 90>>,
      <<170, 140>>, <<171, 29>>, <<171, 54>>, <<171, 99>>, <<171, 115>>, <<171, 129>>,
      <<171, 139>>, <<171, 164>>, <<172, 28>>, <<172, 43>>, <<174, 156>>, <<176, 44>>,
      <<176, 134>>, <<177, 59>>, <<177, 133>>, <<178, 22>>, <<178, 112>>, <<178, 132>>,
      <<178, 157>>, <<179, 21>>, <<179, 131>>, <<179, 141>>, <<179, 171>>, <<183, 61>>,
      <<184, 126>>, <<185, 150>>, <<186, 14>>, <<186, 54>>, <<186, 62>>, <<186, 140>>,
      <<186, 174>>, <<187, 13>>, <<187, 123>>, <<187, 153>>, <<188, 12>>, <<190, 60>>,
      <<192, 66>>, <<192, 118>>, <<192, 143>>, <<192, 150>>, <<193, 69>>, <<193, 117>>,
      <<194, 72>>, <<194, 116>>, <<195, 5>>, <<195, 55>>, <<195, 65>>, <<195, 75>>,
      <<195, 115>>, <<195, 155>>, <<195, 165>>, <<195, 190>>, <<196, 4>>, <<198, 84>>,
      <<199, 87>>, <<199, 111>>, <<199, 136>>, <<199, 151>>, <<200, 90>>, <<200, 110>>,
      <<201, 69>>, <<201, 84>>, <<201, 93>>, <<201, 109>>, <<201, 129>>, <<201, 159>>,
      <<201, 165>>, <<201, 174>>, <<201, 189>>, <<202, 96>>, <<202, 108>>, <<203, 29>>,
      <<203, 99>>, <<203, 107>>, <<203, 147>>, <<203, 177>>, <<205, 45>>, <<206, 204>>,
      <<208, 102>>, <<208, 114>>, <<209, 101>>, <<209, 117>>, <<209, 201>>, <<210, 30>>,
      <<210, 50>>, <<210, 75>>, <<210, 100>>, <<210, 120>>, <<210, 150>>, <<210, 175>>,
      <<210, 180>>, <<210, 200>>, <<211, 79>>, <<211, 99>>, <<211, 123>>, <<211, 139>>,
      <<211, 189>>, <<211, 199>>, <<215, 35>>, <<217, 198>>, <<217, 213>>, <<218, 192>>,
      <<219, 51>>, <<219, 66>>, <<219, 141>>, <<219, 191>>, <<219, 201>>, <<219, 216>>,
      <<222, 213>>, <<225, 45>>, <<225, 160>>, <<225, 165>>, <<225, 205>>, <<226, 52>>,
      <<226, 139>>, <<226, 168>>, <<226, 184>>, <<227, 59>>, <<227, 83>>, <<227, 123>>,
      <<227, 143>>, <<227, 171>>, <<227, 183>>, <<227, 203>>, <<227, 213>>, <<228, 66>>,
      <<228, 82>>, <<229, 181>>, <<230, 20>>, <<230, 80>>, <<230, 180>>, <<231, 79>>,
      <<231, 87>>, <<231, 119>>, <<231, 159>>, <<231, 179>>, <<231, 183>>, <<231, 199>>,
      <<231, 204>>, <<231, 215>>, <<231, 229>>, <<232, 48>>, <<232, 78>>, <<232, 94>>,
      <<232, 163>>, <<232, 178>>, <<232, 186>>, <<232, 228>>, <<233, 57>>, <<233, 77>>,
      <<233, 101>>, <<233, 167>>, <<233, 177>>, <<233, 189>>, <<233, 197>>, <<233, 222>>,
      <<234, 66>>, <<234, 76>>, <<234, 101>>, <<234, 108>>, <<234, 126>>, <<234, 136>>,
      <<234, 156>>, <<234, 171>>, <<234, 176>>, <<234, 192>>, <<234, 201>>, <<234, 206>>,
      <<234, 216>>, <<234, 220>>, <<234, 226>>, <<235, 25>>, <<235, 115>>, <<235, 150>>,
      <<235, 175>>, <<235, 195>>, <<235, 225>>, <<239, 221>>, <<240, 150>>, <<240, 220>>,
      <<240, 230>>, <<241, 157>>, <<241, 169>>, <<241, 189>>, <<241, 199>>, <<241, 213>>,
      <<241, 219>>, <<241, 229>>, <<242, 68>>, <<242, 138>>, <<242, 164>>, <<242, 168>>,
      <<242, 203>>, <<242, 216>>, <<242, 218>>, <<242, 228>>, <<243, 27>>, <<243, 67>>,
      <<243, 107>>, <<243, 117>>, <<243, 147>>, <<243, 167>>, <<243, 171>>, <<243, 187>>,
      <<243, 192>>, <<243, 207>>, <<243, 217>>, <<243, 219>>, <<243, 227>>, <<243, 235>>,
      <<243, 237>>, <<243, 242>>, <<246, 244>>, <<249, 236>>, <<249, 245>>, <<249, 246>>,
      <<251, 99>>, <<251, 239>>, <<251, 249>> }

\* The (gf - bf) / d, (bf - rf) / d or (rf - gf) / d of rgbToHSL's switch on
\* maxC, as num / d in units of 1 / 255, with the 0.0, 2.0 or 4.0 added to
\* it and the 6.0 of a negative quotient in the first case.
hueSextant(c) ==
    LET mx == IF c[1] >= c[2] /\ c[1] >= c[3] THEN c[1]
              ELSE IF c[2] >= c[3] THEN c[2] ELSE c[3]
        mn == IF c[1] <= c[2] /\ c[1] <= c[3] THEN c[1]
              ELSE IF c[2] <= c[3] THEN c[2] ELSE c[3]
    IN  IF mx = c[1]
        THEN [num |-> c[2] - c[3], d |-> mx - mn,
              off |-> IF c[2] < c[3] THEN 6 ELSE 0]
        ELSE IF mx = c[2]
        THEN [num |-> c[3] - c[1], d |-> mx - mn, off |-> 2]
        ELSE [num |-> c[1] - c[2], d |-> mx - mn, off |-> 4]

\* The colors whose hue hangs on the rounding error of float64: h * 360 is
\* a whole number, and the quotient of the switch is not 0, 1 or -1, which
\* float64 holds exactly.
hueTie(c) ==
    LET q == hueSextant(c)
    IN  /\ q.d # 0
        /\ q.num \notin {0, q.d, 0 - q.d}
        /\ (60 * (q.num + q.off * q.d)) % q.d = 0

\* rgbToHSL(r, g, b): int(h * 360), int(s * 100), int(l * 100) of the hue,
\* saturation and lightness of the color. The three are float64 in the
\* code and exact here; where the float64 falls short of a whole number
\* the result is one less: for l and s on the colors listed above, for h
\* on a color of hueTie when below holds.
rgbToHSL(c, below) ==
    LET mx == IF c[1] >= c[2] /\ c[1] >= c[3] THEN c[1]
              ELSE IF c[2] >= c[3] THEN c[2] ELSE c[3]
        mn == IF c[1] <= c[2] /\ c[1] <= c[3] THEN c[1]
              ELSE IF c[2] <= c[3] THEN c[2] ELSE c[3]
        q == hueSextant(c)
        l == (100 * (mx + mn)) \div 510
               - (IF <<mx, mn>> \in lightnessBelow THEN 1 ELSE 0)
        s == IF mx = mn THEN 0
             ELSE (100 * (mx - mn))
                    \div (IF mx + mn > 255 THEN 510 - mx - mn ELSE mx + mn)
                  - (IF <<mx, mn>> \in saturationBelow THEN 1 ELSE 0)
        h == IF mx = mn THEN 0
             ELSE (60 * (q.num + q.off * q.d)) \div q.d
                  - (IF below /\ hueTie(c) THEN 1 ELSE 0)
    IN  <<h, s, l>>

\* formatColor(r, g, b, obfuscate): without obfuscation the lowercase hex
\* color after "background-color:", no random number read; with it the color
\* in the notation the first read picks (lowercase hex, uppercase hex, hex of
\* mixed case, rgb(), hsl()), after the property name in random case. With
\* the source of random numbers as the call leaves it.
formatColor(c, obf, r, below) ==
    IF ~obf
    THEN [text |-> BackgroundColor \o <<":">> \o sprintfColor(c), rnd |-> r]
    ELSE
    LET n == randIntn(r, 0, 5)
        hsl == rgbToHSL(c, below)
        colorVal ==
            CASE n = 0 -> sprintfColor(c)
              [] n = 1 -> <<"#">> \o hex2Upper(c[1]) \o hex2Upper(c[2])
                                  \o hex2Upper(c[3])
              [] n = 2 -> <<"#">> \o hexByte(c[1], r, 1) \o hexByte(c[2], r, 3)
                                  \o hexByte(c[3], r, 5)
              [] n = 3 -> <<"r", "g", "b", "(">> \o decimal(c[1]) \o <<",">>
                            \o decimal(c[2]) \o <<",">> \o decimal(c[3])
                            \o <<")">>
              [] OTHER -> <<"h", "s", "l", "(">> \o decimal(hsl[1]) \o <<",">>
                            \o decimal(hsl[2]) \o <<"%", ",">>
                            \o decimal(hsl[3]) \o <<"%", ")">>
        used == IF n = 2 THEN 7 ELSE 1
    IN  [text |-> randomizeCase(BackgroundColor, r, used) \o <<":">> \o colorVal,
         rnd |-> [r EXCEPT !.pos = (@ + used + Len(BackgroundColor))
                                     % Len(r.reads)]]

RECURSIVE expandWidthLoop(_, _, _, _, _, _, _)
expandWidthLoop(im, visitedRow, ax, ay, wd, c, w) ==
    IF ax + w < wd /\ ~visitedRow[ax + w]
    THEN IF colorAt(im, ax + w, ay) # c
         THEN w
         ELSE expandWidthLoop(im, visitedRow, ax, ay, wd, c, w + 1)
    ELSE w

RECURSIVE expandWidthAnyLoop(_, _, _, _, _, _)
expandWidthAnyLoop(im, ax, ay, wd, c, w) ==
    IF ax + w < wd
    THEN IF colorAt(im, ax + w, ay) # c
         THEN w
         ELSE expandWidthAnyLoop(im, ax, ay, wd, c, w + 1)
    ELSE w

\* Mutant of expandWidth: the !visitedRow[x+w] test is dropped.
expandWidthIgnoreVisited(im, visitedRow, ax, ay, wd, c) ==
    expandWidthAnyLoop(im, ax, ay, wd, c, 1)

\* Mutant of expandWidth: the bound is x+w < width-1.
expandWidthShortBound(im, visitedRow, ax, ay, wd, c) ==
    expandWidthLoop(im, visitedRow, ax, ay, wd - 1, c, 1)

\* Mutant of expandWidth: the color comparison is inverted.
RECURSIVE expandWidthInvLoop(_, _, _, _, _, _, _)
expandWidthInvLoop(im, visitedRow, ax, ay, wd, c, w) ==
    IF ax + w < wd /\ ~visitedRow[ax + w]
    THEN IF colorAt(im, ax + w, ay) = c
         THEN w
         ELSE expandWidthInvLoop(im, visitedRow, ax, ay, wd, c, w + 1)
    ELSE w

expandWidthInverted(im, visitedRow, ax, ay, wd, c) ==
    expandWidthInvLoop(im, visitedRow, ax, ay, wd, c, 1)

\* expandWidth: w := 1; for x+w < width && !visitedRow[x+w] { ... w++ }
expandWidth(im, visitedRow, ax, ay, wd, c) ==
    expandWidthLoop(im, visitedRow, ax, ay, wd, c, 1)

\* Mutant of rowMatchesColor: only the first column of the strip is compared.
rowMatchesColorFirstOnly(im, ax, ry, w, c) == colorAt(im, ax, ry) = c

\* rowMatchesColor: every pixel of [x, x+w) on row y has the anchor color.
rowMatchesColor(im, ax, ry, w, c) ==
    \A dx \in 0 .. w - 1 : colorAt(im, ax + dx, ry) = c

RECURSIVE expandHeightLoop(_, _, _, _, _, _, _)
expandHeightLoop(im, ax, ay, w, ht, c, h) ==
    IF ay + h < ht
    THEN IF ~rowMatchesColor(im, ax, ay + h, w, c)
         THEN h
         ELSE expandHeightLoop(im, ax, ay, w, ht, c, h + 1)
    ELSE h

\* Mutant of expandHeight: the bound is y+h < height-1.
expandHeightShortBound(im, ax, ay, w, ht, c) ==
    expandHeightLoop(im, ax, ay, w, ht - 1, c, 1)

\* Mutant of expandHeight: no vertical merge at all.
expandHeightNone(im, ax, ay, w, ht, c) == 1

\* expandHeight: h := 1; for y+h < height { if !rowMatchesColor {break}; h++ }
expandHeight(im, ax, ay, w, ht, c) == expandHeightLoop(im, ax, ay, w, ht, c, 1)

\* The inlined vertical expansion of the earlier buildTable: a row is taken
\* while every pixel of the strip is unvisited and of the anchor color.
RECURSIVE expandHeightInlinedLoop(_, _, _, _, _, _, _, _)
expandHeightInlinedLoop(im, vis, ax, ay, w, ht, c, h) ==
    IF ay + h < ht
    THEN IF \A dx \in 0 .. w - 1 :
                ~vis[ay + h][ax + dx] /\ colorAt(im, ax + dx, ay + h) = c
         THEN expandHeightInlinedLoop(im, vis, ax, ay, w, ht, c, h + 1)
         ELSE h
    ELSE h

\* h := 1; canExpand := true; for y+h < height && canExpand { ... }
expandHeightInlined(im, vis, ax, ay, w, ht, c) ==
    expandHeightInlinedLoop(im, vis, ax, ay, w, ht, c, 1)

InRect(px, py, ax, ay, w, h) ==
    /\ ax <= px /\ px < ax + w
    /\ ay <= py /\ py < ay + h

\* markVisited: visited[y+dy][x+dx] = true for dy < h, dx < w.
markVisited(vis, ax, ay, w, h) ==
    [ry \in DOMAIN vis |->
        [rx \in DOMAIN vis[ry] |->
            IF InRect(rx, ry, ax, ay, w, h) THEN TRUE ELSE vis[ry][rx]]]

\* The history of markVisited's writes: one more write per pixel of the block.
countMarks(mk, ax, ay, w, h) ==
    [ry \in DOMAIN mk |->
        [rx \in DOMAIN mk[ry] |->
            IF InRect(rx, ry, ax, ay, w, h) THEN mk[ry][rx] + 1 ELSE mk[ry][rx]]]

\* Mutant of makeVisited: the mask of the previous call is kept.
makeVisitedStale(wd, ht) ==
    IF DOMAIN visited = 0 .. ht - 1
    THEN visited
    ELSE [ry \in 0 .. ht - 1 |-> [rx \in 0 .. wd - 1 |-> FALSE]]

\* visited := make([][]bool, height); visited[i] = make([]bool, width)
makeVisited(wd, ht) == [ry \in 0 .. ht - 1 |-> [rx \in 0 .. wd - 1 |-> FALSE]]

\* rows := make([][]Cell, height): height nil rows.
makeRows(ht) == [ry \in 0 .. ht - 1 |-> <<>>]

----------------------------------------------------------------------------
(* buildTable, one action per step of its loops *)

\* buildTable has not been entered: no locals yet.
MeshIdle ==
    /\ pc = "idle"
    /\ visited = <<>>
    /\ rows = <<>>
    /\ currentRow = <<>>
    /\ x = 0
    /\ y = 0
    /\ results = <<>>
    /\ anchors = <<>>
    /\ marks = <<>>
    /\ polls = <<>>
    /\ cancelPos = [pc |-> "never"]

\* No core operation has run yet: the counts of draw.Draw calls onto the
\* canvas, snapshots taken, images scaled and buildTable calls.
NoSteps == [draw |-> 0, snapshot |-> 0, scale |-> 0, mesh |-> 0]

\* Neither Convert nor ConvertGIF is in use: buildTable is called directly.
ApiIdle ==
    /\ fn = "none"
    /\ apc = "none"
    /\ conv = [nil |-> TRUE]
    /\ src = [nil |-> TRUE]
    /\ gif = [nil |-> TRUE]
    /\ wr = "nil"
    /\ canvas = [nil |-> TRUE]
    /\ snaps = <<>>
    /\ fi = 0
    /\ frames = <<>>
    /\ allKeyframes = <<>>
    /\ out = <<>>
    /\ ret = "pending"
    /\ steps = NoSteps
    /\ kf = [frameCount |-> 0]
    /\ rnd = NoReads

Init ==
    /\ \E s \in Shapes :
          /\ width = s[1]
          /\ height = s[2]
          /\ img \in [Coords(s[1], s[2]) -> Palette]
    /\ ctxErr = "nil"
    /\ MeshIdle
    /\ ApiIdle

\* buildTable is entered: fresh mask, fresh rows, y := 0.
Call ==
    /\ pc = "idle"
    /\ Len(results) < MaxRuns
    /\ visited' = makeVisited(width, height)
    /\ rows' = makeRows(height)
    /\ currentRow' = <<>>
    /\ x' = 0
    /\ y' = 0
    /\ anchors' = <<>>
    /\ marks' = [ry \in 0 .. height - 1 |-> [rx \in 0 .. width - 1 |-> 0]]
    /\ pc' = "loop_y"
    /\ polls' = <<>>
    /\ UNCHANGED <<img, width, height, ctxErr, results, cancelPos>>
    /\ UNCHANGED apiVars
    /\ UNCHANGED rnd

\* Mutant of pollRow: only the first row polls.
pollRowFirstOnly(ry) == ry = 0

\* if y%10 == 0: the rows at whose start ctx.Err() is evaluated.
pollRow(ry) == ry % 10 = 0

\* Top of the row loop: the poll every tenth row, then var currentRow []Cell.
RowStart ==
    /\ pc = "loop_y"
    /\ y < height
    /\ IF pollRow(y) /\ ctxErr # "nil"
       THEN /\ results' = Append(results, [rows |-> <<>>, err |-> ctxErr])
            /\ pc' = "idle"
            /\ UNCHANGED <<currentRow, x>>
       ELSE /\ currentRow' = <<>>
            /\ x' = 0
            /\ pc' = "loop_x"
            /\ UNCHANGED results
    /\ polls' = IF pollRow(y)
                THEN Append(polls, [site |-> "row", at |-> y, err |-> ctxErr])
                ELSE polls
    /\ UNCHANGED <<img, width, height, ctxErr, visited, rows, y, anchors, marks,
                   cancelPos>>
    /\ UNCHANGED apiVars
    /\ UNCHANGED rnd

\* Mutant of SkipVisited: a 1x1 placeholder cell is emitted for a visited pixel.
SkipVisitedPlaceholder ==
    /\ pc = "loop_x"
    /\ x < width
    /\ visited[y][x]
    /\ currentRow' = Append(currentRow,
                            [Color |-> sprintfColor(colorAt(img, x, y)),
                             Colspan |-> 1, Rowspan |-> 1])
    /\ x' = x + 1
    /\ UNCHANGED <<img, width, height, ctxErr, pc, visited, rows, y,
                   results, anchors, marks, polls, cancelPos>>
    /\ UNCHANGED apiVars
    /\ UNCHANGED rnd

\* if visited[y][x] { continue }
SkipVisited ==
    /\ pc = "loop_x"
    /\ x < width
    /\ visited[y][x]
    /\ x' = x + 1
    /\ UNCHANGED <<img, width, height, ctxErr, pc, visited, rows, currentRow, y,
                   results, anchors, marks, polls, cancelPos>>
    /\ UNCHANGED apiVars
    /\ UNCHANGED rnd

\* buildTable's obfuscate argument: c.obfuscate when buildRows calls it,
\* false for the callers that do not pass it.
obfuscate == fn = "ConvertGIF" /\ conv.obfuscate

\* The ways the float64 hue of one formatColor call can fall: two where
\* the call writes hsl() for a color of hueTie.
hueBelow(c) ==
    IF obfuscate /\ randIntn(rnd, 0, 5) = 4 /\ hueTie(c) THEN BOOLEAN
    ELSE {FALSE}

\* The text of a cell's color, and the source of random numbers after it:
\* formatColor's under buildRows, which passes c.obfuscate on; the plain
\* "#rrggbb" of buildTable for the callers that do not.
cellColor(c, below) ==
    IF fn = "ConvertGIF" THEN formatColor(c, conv.obfuscate, rnd, below)
    ELSE [text |-> sprintfColor(c), rnd |-> rnd]

\* EmitCell with the two expansions in the other order: the height is grown
\* first for the anchor column alone, the width then for that height.
EmitCellHeightFirst ==
    /\ pc = "loop_x"
    /\ x < width
    /\ ~visited[y][x]
    /\ LET c == colorAt(img, x, y)
           h == expandHeight(img, x, y, 1, height, c)
           w == CHOOSE n \in 1 .. width - x :
                  /\ \A k \in 0 .. n - 1 : \A j \in 0 .. h - 1 :
                        colorAt(img, x + k, y + j) = c /\ ~visited[y + j][x + k]
                  /\ \A m \in n + 1 .. width - x :
                        \E k \in 0 .. m - 1 : \E j \in 0 .. h - 1 :
                          colorAt(img, x + k, y + j) # c \/ visited[y + j][x + k]
       IN  \E below \in hueBelow(c) :
             LET color == cellColor(c, below)
                 cell == [Color |-> color.text, Colspan |-> w, Rowspan |-> h]
             IN  /\ visited' = markVisited(visited, x, y, w, h)
                 /\ rnd' = color.rnd
                 /\ marks' = countMarks(marks, x, y, w, h)
                 /\ currentRow' = Append(currentRow, cell)
                 /\ anchors' = Append(anchors,
                                      [x |-> x, y |-> y, cell |-> cell,
                                       mask |-> visited])
    /\ x' = x + 1
    /\ UNCHANGED <<img, width, height, ctxErr, pc, rows, y, results, polls,
                   cancelPos>>
    /\ UNCHANGED apiVars

\* An unvisited anchor: sample, expand, mark, append the cell.
EmitCell ==
    /\ pc = "loop_x"
    /\ x < width
    /\ ~visited[y][x]
    /\ LET c == colorAt(img, x, y)
           w == expandWidth(img, visited[y], x, y, width, c)
           h == expandHeight(img, x, y, w, height, c)
       IN  \E below \in hueBelow(c) :
             LET color == cellColor(c, below)
                 cell == [Color |-> color.text, Colspan |-> w, Rowspan |-> h]
             IN  /\ visited' = markVisited(visited, x, y, w, h)
                 /\ rnd' = color.rnd
                 /\ marks' = countMarks(marks, x, y, w, h)
                 /\ currentRow' = Append(currentRow, cell)
                 /\ anchors' = Append(anchors,
                                      [x |-> x, y |-> y, cell |-> cell,
                                       mask |-> visited])
    /\ x' = x + 1
    /\ UNCHANGED <<img, width, height, ctxErr, pc, rows, y, results, polls,
                   cancelPos>>
    /\ UNCHANGED apiVars

\* End of the column loop: rows[y] = currentRow.
RowEnd ==
    /\ pc = "loop_x"
    /\ x = width
    /\ rows' = [rows EXCEPT ![y] = currentRow]
    /\ y' = y + 1
    /\ pc' = "loop_y"
    /\ UNCHANGED <<img, width, height, ctxErr, visited, currentRow, x,
                   results, anchors, marks, polls, cancelPos>>
    /\ UNCHANGED apiVars
    /\ UNCHANGED rnd

\* return rows, nil
Return ==
    /\ pc = "loop_y"
    /\ y = height
    /\ results' = Append(results, [rows |-> rows, err |-> "nil"])
    /\ pc' = "idle"
    /\ UNCHANGED <<img, width, height, ctxErr, visited, rows, currentRow, x, y,
                   anchors, marks, polls, cancelPos>>
    /\ UNCHANGED apiVars
    /\ UNCHANGED rnd

Next == Call \/ RowStart \/ SkipVisited \/ EmitCell \/ RowEnd \/ Return

Spec == Init /\ [][Next]_vars

\* buildTable on the grids of at least two rows and two columns, where a
\* region can extend both rightwards and downwards from an anchor.
InitGrid == Init /\ width >= 2 /\ height >= 2

SpecGrid == InitGrid /\ [][Next]_vars

\* Pixels as img.At(x, y).RGBA() returns them, alpha-premultiplied: black
\* and red, each opaque and not.
AlphaPalette ==
    { [R |-> 0,     G |-> 0, B |-> 0, A |-> 65535],
      [R |-> 0,     G |-> 0, B |-> 0, A |-> 0],
      [R |-> 32896, G |-> 0, B |-> 0, A |-> 65535],
      [R |-> 32896, G |-> 0, B |-> 0, A |-> 32896] }

\* Grids whose pixels differ in alpha as well as in color.
InitAlpha ==
    /\ \E s \in { t \in (1 .. MaxAlphaArea) \X (1 .. MaxAlphaArea) :
                    t[1] * t[2] <= MaxAlphaArea } :
          /\ width = s[1]
          /\ height = s[2]
          /\ img \in [Coords(s[1], s[2]) -> AlphaPalette]
    /\ ctxErr = "nil"
    /\ MeshIdle
    /\ ApiIdle

SpecAlpha == InitAlpha /\ [][Next]_vars

----------------------------------------------------------------------------
(* The animation timeline: gifDelay and buildAllKeyframes *)

\* Times are float64 seconds in the code; here they are whole centiseconds
\* (seconds * 100) and a percentage is the exact fraction num / den. For the
\* delays a GIF file can carry every float64 comparison the code makes has
\* the outcome of the exact one, and the float64 percentage lies within
\* 1e-12 of the exact one: its four-decimal text is that of the exact value
\* except where the exact value lies halfway between two texts, where the
\* rounding error of the float64 operations decides.

\* Mutant of gifDelay: a zero or negative delay becomes 1 centisecond.
gifDelayMin1(g, i) ==
    IF i < Len(g.Delay) /\ g.Delay[i + 1] > 0 THEN g.Delay[i + 1] ELSE 1

\* gifDelay(g, i), in centiseconds; i counts from 0.
gifDelay(g, i) ==
    IF i < Len(g.Delay) /\ g.Delay[i + 1] > 0 THEN g.Delay[i + 1] ELSE 10

\* cumulative at the top of iteration i: cumulative += delay, i times.
RECURSIVE cumulativeAt(_, _)
cumulativeAt(g, i) ==
    IF i = 0 THEN 0 ELSE cumulativeAt(g, i - 1) + gifDelay(g, i - 1)

\* totalDelay += gifDelay(g, i) for i in range frameCount.
totalDelay(frameCount, g) == cumulativeAt(g, frameCount)

\* onPct := cumulative / totalDelay * 100
onPct(frameCount, g, i) ==
    [num |-> cumulativeAt(g, i) * 100, den |-> totalDelay(frameCount, g)]

\* Mutant of offPct: the frame's own delay is left out.
offPctNoDelay(frameCount, g, i) == onPct(frameCount, g, i)

\* offPct := (cumulative + delay) / totalDelay * 100
offPct(frameCount, g, i) ==
    [num |-> (cumulativeAt(g, i) + gifDelay(g, i)) * 100,
     den |-> totalDelay(frameCount, g)]

\* The first k decimals of r / den for 0 <= r < den, as the number q they
\* spell, and what is left: r / den = (q + rest / den) / 10^k.
RECURSIVE longDivision(_, _, _)
longDivision(r, den, k) ==
    IF k = 0 THEN [q |-> 0, rest |-> r]
    ELSE LET s == longDivision(r, den, k - 1)
         IN  [q |-> s.q * 10 + (s.rest * 10) \div den,
              rest |-> (s.rest * 10) % den]

\* The exact p = num / den lies halfway between two four-decimal values.
IsTie(p) == 2 * longDivision(p.num % p.den, p.den, 4).rest = p.den

\* fmt.Sprintf("%.4f%%", p) for p = num / den >= 0: four decimals, the
\* nearest value. Where the exact p is halfway, the float64 the code
\* formats is p or a neighbour of p above or below it, and the text is the
\* upper value (up) or the lower one.
sprintfPct(p, up) ==
    LET s == longDivision(p.num % p.den, p.den, 4)
        q == (p.num \div p.den) * 10000 + s.q
        n == IF 2 * s.rest > p.den \/ (2 * s.rest = p.den /\ up)
             THEN q + 1 ELSE q
        f == n % 10000
    IN  decimal(n \div 10000) \o <<".">> \o
        <<DecDigits[(f \div 1000) + 1], DecDigits[((f \div 100) % 10) + 1],
          DecDigits[((f \div 10) % 10) + 1], DecDigits[(f % 10) + 1]>> \o <<"%">>

\* Mutant of frameKeyframes: the hidden keyframe at 0% is always written.
frameKeyframesZeroAlways(frameCount, g, i, tie) ==
    LET on == onPct(frameCount, g, i)
        off == offPct(frameCount, g, i)
    IN  <<[Percent |-> <<"0", "%">>, Opacity |-> 0]>>
        \o <<[Percent |-> sprintfPct(on, tie[i]), Opacity |-> 1]>>
        \o (IF off.num < 100 * off.den
            THEN <<[Percent |-> sprintfPct(off, tie[i + 1]), Opacity |-> 0]>>
            ELSE <<>>)
        \o <<[Percent |-> <<"1", "0", "0", "%">>,
              Opacity |-> IF i = frameCount - 1 THEN 1 ELSE 0]>>

\* Mutant of frameKeyframes: the keyframe hiding the frame at offPct is
\* never written.
frameKeyframesNoOff(frameCount, g, i, tie) ==
    LET on == onPct(frameCount, g, i)
    IN  (IF on.num > 0
         THEN <<[Percent |-> <<"0", "%">>, Opacity |-> 0]>> ELSE <<>>)
        \o <<[Percent |-> sprintfPct(on, tie[i]), Opacity |-> 1]>>
        \o <<[Percent |-> <<"1", "0", "0", "%">>,
              Opacity |-> IF i = frameCount - 1 THEN 1 ELSE 0]>>

\* The keyframes of frame i: one iteration of buildAllKeyframes' second
\* loop. tie[b] is the way the float64 percentage of boundary b, the sum
\* of the first b delays over the total, goes when it lies halfway: offPct
\* of frame i and onPct of frame i + 1 are the same float64.
frameKeyframes(frameCount, g, i, tie) ==
    LET on == onPct(frameCount, g, i)
        off == offPct(frameCount, g, i)
    IN  (IF on.num > 0
         THEN <<[Percent |-> <<"0", "%">>, Opacity |-> 0]>> ELSE <<>>)
        \o <<[Percent |-> sprintfPct(on, tie[i]), Opacity |-> 1]>>
        \o (IF off.num < 100 * off.den
            THEN <<[Percent |-> sprintfPct(off, tie[i + 1]), Opacity |-> 0]>>
            ELSE <<>>)
        \o <<[Percent |-> <<"1", "0", "0", "%">>,
              Opacity |-> IF i = frameCount - 1 THEN 1 ELSE 0]>>

\* The ways the halfway percentages of frameCount frames can go: FALSE at
\* every boundary whose percentage is not halfway.
TieChoices(frameCount, g) ==
    IF frameCount = 0 THEN { [b \in {0} |-> FALSE] }
    ELSE { t \in [0 .. frameCount -> BOOLEAN] :
             \A b \in 0 .. frameCount :
                t[b] => IsTie(onPct(frameCount, g, b)) }

\* buildAllKeyframes(frameCount, g); nil is the empty sequence.
buildAllKeyframes(frameCount, g, tie) ==
    IF frameCount = 0 THEN <<>>
    ELSE [i \in 1 .. frameCount |-> frameKeyframes(frameCount, g, i - 1, tie)]

\* Delay values of a *gif.GIF: negative, zero and positive centiseconds;
\* 13 of 13 + 115 is 10.15625%, halfway between 10.1562% and 10.1563%.
DelayValues == {-1, 0, 10, 20, 13, 115}

\* The delay lists of at most n entries.
DelayLists(n) == UNION { [1 .. k -> DelayValues] : k \in 0 .. n }

\* A *gif.GIF of which only Delay matters, and a frame count of its own:
\* the delay list may be shorter or longer than the frame count.
InitTimeline ==
    /\ width = 1
    /\ height = 1
    /\ img \in [Coords(1, 1) -> {[R |-> 0, G |-> 0, B |-> 0, A |-> 65535]}]
    /\ ctxErr = "nil"
    /\ MeshIdle
    /\ fn = "buildAllKeyframes"
    /\ apc = "kf_call"
    /\ conv = [nil |-> TRUE]
    /\ src = [nil |-> TRUE]
    /\ \E d \in DelayLists(MaxDelays) :
          gif = [nil |-> FALSE, Config |-> [Width |-> 0, Height |-> 0],
                 Image |-> <<>>, Disposal |-> <<>>, Delay |-> d]
    /\ wr = "nil"
    /\ canvas = [nil |-> TRUE]
    /\ snaps = <<>>
    /\ fi = 0
    /\ frames = <<>>
    /\ allKeyframes = <<>>
    /\ out = <<>>
    /\ ret = "pending"
    /\ steps = NoSteps
    /\ \E n \in 0 .. MaxDelays : kf = [frameCount |-> n]
    /\ rnd = NoReads

\* buildAllKeyframes(frameCount, g) runs to its return; kf keeps the values
\* its locals took: each frame's delay, totalDelay, and onPct and offPct,
\* and the way each halfway percentage went.
BuildAllKeyframes ==
    /\ apc = "kf_call"
    /\ \E tie \in TieChoices(kf.frameCount, gif) :
       LET n == kf.frameCount
       IN  /\ allKeyframes' = buildAllKeyframes(n, gif, tie)
           /\ kf' = [frameCount |-> n,
                     tie |-> tie,
                     delays |-> [i \in 1 .. n |-> gifDelay(gif, i - 1)],
                     total |-> totalDelay(n, gif),
                     windows |-> [i \in 1 .. n |->
                                   [on |-> onPct(n, gif, i - 1),
                                    off |-> offPct(n, gif, i - 1)]]]
    /\ apc' = "kf_done"
    /\ UNCHANGED <<fn, conv, src, gif, wr, canvas, snaps, fi, frames, out, ret,
                   steps>>
    /\ UNCHANGED <<ctxErr, polls, cancelPos>>
    /\ UNCHANGED meshVars
    /\ UNCHANGED rnd

NextTimeline == BuildAllKeyframes

SpecTimeline == InitTimeline /\ [][NextTimeline]_vars

----------------------------------------------------------------------------
(* buildTable under a context that may be cancelled at any moment *)

\* One-column grids: a single color, or two colors alternating row by row.
TallImages(h) ==
    LET c1 == [R |-> 65535, G |-> 0, B |-> 0, A |-> 65535]
        c2 == [R |-> 0, G |-> 0, B |-> 65535, A |-> 65535]
    IN  { [p \in Coords(1, h) |-> c1],
          [p \in Coords(1, h) |-> IF p[2] % 2 = 0 THEN c1 ELSE c2] }

InitCancel ==
    /\ width = 1
    /\ height \in 1 .. MaxTall
    /\ img \in TallImages(height)
    /\ ctxErr = "nil"
    /\ MeshIdle
    /\ ApiIdle

\* The context's owner cancels it (or its deadline passes): from now on
\* ctx.Err() is non-nil. Any moment of the program is possible.
Cancel ==
    /\ ctxErr = "nil"
    /\ ret = "pending"
    /\ ctxErr' \in {"context canceled", "context deadline exceeded"}
    /\ cancelPos' = [pc |-> pc, y |-> y, call |-> Len(results), apc |-> apc,
                     fi |-> fi, snaps |-> Len(snaps), steps |-> steps]
    /\ UNCHANGED <<img, width, height, pc, visited, rows, currentRow, x, y,
                   results, anchors, marks, polls>>
    /\ UNCHANGED apiVars
    /\ UNCHANGED rnd

NextCancel ==
    Call \/ RowStart \/ SkipVisited \/ EmitCell \/ RowEnd \/ Return \/ Cancel

SpecCancel == InitCancel /\ [][NextCancel]_vars

----------------------------------------------------------------------------
(* Images, scaling and frame compositing *)

\* An image is [nil |-> FALSE, Min, Max, pix]: its bounds and, for every
\* point of the bounds, an 8-bit alpha-premultiplied RGBA pixel.
Transparent == [R |-> 0, G |-> 0, B |-> 0, A |-> 0]
Red8 == [R |-> 255, G |-> 0, B |-> 0, A |-> 255]
Blue8 == [R |-> 0, G |-> 0, B |-> 255, A |-> 255]

RectPoints(mn, mx) == (mn[1] .. mx[1] - 1) \X (mn[2] .. mx[2] - 1)

Dx(im) == im.Max[1] - im.Min[1]
Dy(im) == im.Max[2] - im.Min[2]

\* image.NewRGBA(image.Rect(0, 0, w, h)): every pixel transparent.
NewRGBA(w, h) ==
    [nil |-> FALSE, Min |-> <<0, 0>>, Max |-> <<w, h>>,
     pix |-> [p \in RectPoints(<<0, 0>>, <<w, h>>) |-> Transparent]]

\* An image of one color over the rectangle mn .. mx.
UniformImage(mn, mx, c) ==
    [nil |-> FALSE, Min |-> mn, Max |-> mx,
     pix |-> [p \in RectPoints(mn, mx) |-> c]]

\* One channel of the Over operator on 8-bit destination d, source s with
\* source alpha sa: (d*0x101*(0xffff - sa16) + s16*0xffff) / 0xffff >> 8
\* with s16 = s*0x101 and sa16 = sa*0x101. The factor 0x101 of
\* 0xffff - sa16 = 0x101*(255 - sa) and of 0xffff = 0x101*255 is cancelled.
over8(d, s, sa) == (s * 257 + (d * 257 * (255 - sa)) \div 255) \div 256

overPixel(d, s) ==
    [R |-> over8(d.R, s.R, s.A), G |-> over8(d.G, s.G, s.A),
     B |-> over8(d.B, s.B, s.A), A |-> over8(d.A, s.A, s.A)]

\* color.RGBA.RGBA(): each 8-bit channel v becomes v * 0x101.
rgba16(p) ==
    [R |-> p.R * 257, G |-> p.G * 257, B |-> p.B * 257, A |-> p.A * 257]

\* The image as buildTable reads it through img.At(x, y).RGBA().
AsMeshImage(im) == [p \in DOMAIN im.pix |-> rgba16(im.pix[p])]

\* NearestNeighbor.Scale(dest, dest.Bounds(), im, im.Bounds(), Over) onto a
\* new tw x th RGBA image: sx = (2*dx + 1) * sw / (2 * dw), likewise sy.
NearestNeighbor(im, tw, th) ==
    [nil |-> FALSE, Min |-> <<0, 0>>, Max |-> <<tw, th>>,
     pix |-> [p \in RectPoints(<<0, 0>>, <<tw, th>>) |->
                overPixel(Transparent,
                          im.pix[<<im.Min[1] + ((2 * p[1] + 1) * Dx(im)) \div (2 * tw),
                                   im.Min[2] + ((2 * p[2] + 1) * Dy(im)) \div (2 * th)>>])]]

\* f[lo] + ... + f[hi]
RECURSIVE sumRange(_, _, _)
sumRange(f, lo, hi) == IF lo > hi THEN 0 ELSE f[lo] + sumRange(f, lo + 1, hi)

\* The greatest common divisor of two natural numbers.
RECURSIVE gcd(_, _)
gcd(a, b) == IF b = 0 THEN a ELSE gcd(b, a % b)

\* The greatest common divisor of |f[lo]|, ..., |f[hi]|.
RECURSIVE gcdRange(_, _, _)
gcdRange(f, lo, hi) ==
    IF lo > hi THEN 0
    ELSE gcd(IF f[lo] < 0 THEN 0 - f[lo] ELSE f[lo], gcdRange(f, lo + 1, hi))

\* kernel.At(t) at t = a / n below kernel.Support, and no contribution from
\* there on. BiLinear has Support 1 and At(t) = 1 - t: the weight in units
\* of 1 / n. CatmullRom has Support 2, At(t) = (1.5*t - 2.5)*t*t + 1 for
\* t < 1 and ((-0.5*t + 2.5)*t - 4)*t + 2 from there: the weight in units
\* of 1 / (2 * n^3).
kernelAt(kernel, a, n) ==
    IF kernel = "BiLinear"
    THEN IF a < n THEN n - a ELSE 0
    ELSE IF a < n THEN 3 * a * a * a - 5 * a * a * n + 2 * n * n * n
    ELSE IF a < 2 * n
    THEN 5 * a * a * n - a * a * a - 8 * a * n * n + 4 * n * n * n
    ELSE 0

\* math.Abs of a whole number.
abs(v) == IF v < 0 THEN 0 - v ELSE v

\* The weight a Kernel scaler gives source column (or row) coord for
\* destination column (or row) d when sw columns are scaled to dw: with
\* center = (d + 0.5) * sw / dw - 0.5 and t = |center - coord|, divided by
\* sw / dw when shrinking, it is kernel.At(t) for t < kernel.Support. Here
\* t = a / n with n = 2 * max(dw, sw).
kernelWeight(kernel, dw, sw, d, coord) ==
    kernelAt(kernel, abs((2 * d + 1) * sw - dw - 2 * dw * coord),
             2 * (IF dw > sw THEN dw ELSE sw))

\* The weights w of sw source columns (or rows) in the largest unit that
\* keeps them whole numbers: the code divides by the sum of the weights, so
\* that their unit does not matter.
wholeWeights(w, sw) ==
    LET unit == gcdRange(w, 0, sw - 1)
    IN  [coord \in 0 .. sw - 1 |-> w[coord] \div unit]

\* The weights of the sw source columns (or rows) for destination column
\* (or row) d.
kernelWeights(kernel, dw, sw, d) ==
    wholeWeights([coord \in 0 .. sw - 1 |->
                    kernelWeight(kernel, dw, sw, d, coord)], sw)

\* ftou of the mean sum / total taken to 16 bits (v * 0x101): the 16-bit
\* value nearest to it, and 0 or 0xffff beyond those; and whether the mean
\* lies halfway between two 16-bit values.
ftou(sum, total) ==
    LET nearest == 257 * (sum \div total)
                     + (514 * (sum % total) + total) \div (2 * total)
    IN  [v16 |-> IF nearest > 65535 THEN 65535
                 ELSE IF nearest > 0 THEN nearest ELSE 0,
         halfway |-> /\ (514 * (sum % total) + total) % (2 * total) = 0
                     /\ nearest > 0
                     /\ nearest <= 65535]

\* The sum of channel ch of im under the horizontal weights wx and the
\* vertical weights wy.
weightedSum(im, wx, wy, ch) ==
    sumRange(
      [cy \in 0 .. Dy(im) - 1 |->
         wy[cy] *
         sumRange([cx \in 0 .. Dx(im) - 1 |->
                     wx[cx] * im.pix[<<im.Min[1] + cx, im.Min[2] + cy>>][ch]],
                  0, Dx(im) - 1)],
      0, Dy(im) - 1)

\* The mean of channel ch of im under the weights wx and wy, weighted
\* horizontally then vertically, as ftou takes it to 16 bits.
weightedMean(im, wx, wy, ch) ==
    ftou(weightedSum(im, wx, wy, ch),
         sumRange(wx, 0, Dx(im) - 1) * sumRange(wy, 0, Dy(im) - 1))

\* The mean of channel ch at destination pixel q when a Kernel scaler
\* scales im to tw x th.
kernelMean(kernel, im, tw, th, q, ch) ==
    weightedMean(im, kernelWeights(kernel, tw, Dx(im), q[1]),
                 kernelWeights(kernel, th, Dy(im), q[2]), ch)

Channels == {"R", "G", "B", "A"}

\* The pixels and channels whose 8-bit value hangs on the rounding error of
\* the float64 mean: the exact mean is halfway, and the 16-bit value above
\* it is the first of a high byte.
kernelTies(kernel, im, tw, th) ==
    { t \in RectPoints(<<0, 0>>, <<tw, th>>) \X Channels :
        LET m == kernelMean(kernel, im, tw, th, t[1], t[2])
        IN  m.halfway /\ m.v16 % 256 = 0 }

\* Kernel.Scale(dest, dest.Bounds(), im, im.Bounds(), Over) onto a new
\* tw x th RGBA image from an RGBA image: each channel is the weighted mean
\* of the source's premultiplied channel, rounded to the nearest 16-bit
\* value and cut to its high byte, a color channel not above alpha. The
\* means are float64 in the code and exact here: at the pixels and channels
\* of down, all among kernelTies, the float64 falls short of the halfway
\* mean and the byte is one less.
Kernel(kernel, im, tw, th, down) ==
    LET byte(q, ch) ==
            LET v == kernelMean(kernel, im, tw, th, q, ch).v16 \div 256
            IN  IF <<q, ch>> \in down THEN v - 1 ELSE v
        color(q, ch) ==
            IF byte(q, ch) > byte(q, "A") THEN byte(q, "A") ELSE byte(q, ch)
    IN  [nil |-> FALSE, Min |-> <<0, 0>>, Max |-> <<tw, th>>,
         pix |-> [q \in RectPoints(<<0, 0>>, <<tw, th>>) |->
                    overPixel(Transparent,
                              [R |-> color(q, "R"), G |-> color(q, "G"),
                               B |-> color(q, "B"), A |-> byte(q, "A")])]]

\* Along one axis, the two source columns (or rows) ApproxBiLinear blends
\* for destination column (or row) d and the share of the second, in units
\* of 1 / (2 * dw): sx = (d + 0.5) * sw / dw - 0.5, sx0 = int32(sx),
\* xFrac0 = sx - sx0, sx1 = sx0 + 1, both held to the first column for
\* sx < 0 and to the last for sx1 > sw - 1.
ablAxis(dw, sw, d) ==
    LET a == (2 * d + 1) * sw - dw
    IN  IF a < 0 THEN [s0 |-> 0, s1 |-> 0, frac0 |-> 0]
        ELSE IF a \div (2 * dw) + 1 > sw - 1
        THEN [s0 |-> sw - 1, s1 |-> sw - 1, frac0 |-> 2 * dw]
        ELSE [s0 |-> a \div (2 * dw), s1 |-> a \div (2 * dw) + 1,
              frac0 |-> a % (2 * dw)]

\* ApproxBiLinear.Scale(dest, dest.Bounds(), im, im.Bounds(), Over) onto a
\* new tw x th RGBA image from an RGBA image: each channel blends the four
\* source pixels around the destination pixel's center, in 16 bits
\* (v * 0x101), and is cut to a whole number and then to its high byte. A
\* source of the destination's size is copied, which the blend gives too.
ApproxBiLinear(im, tw, th) ==
    LET ax(q) == ablAxis(tw, Dx(im), q[1])
        ay(q) == ablAxis(th, Dy(im), q[2])
        at(sx, sy, ch) == im.pix[<<im.Min[1] + sx, im.Min[2] + sy>>][ch]
        blend(q, sy, ch) ==
            (2 * tw - ax(q).frac0) * at(ax(q).s0, sy, ch)
              + ax(q).frac0 * at(ax(q).s1, sy, ch)
        byte(q, ch) ==
            ((257 * ((2 * th - ay(q).frac0) * blend(q, ay(q).s0, ch)
                       + ay(q).frac0 * blend(q, ay(q).s1, ch)))
               \div (4 * tw * th)) \div 256
    IN  [nil |-> FALSE, Min |-> <<0, 0>>, Max |-> <<tw, th>>,
         pix |-> [q \in RectPoints(<<0, 0>>, <<tw, th>>) |->
                    overPixel(Transparent,
                              [R |-> byte(q, "R"), G |-> byte(q, "G"),
                               B |-> byte(q, "B"), A |-> byte(q, "A")])]]

\* The scalers of golang.org/x/image/draw that are Kernel values.
KernelScalers == {"BiLinear", "CatmullRom"}

\* c.scaleToSize(img, targetW, targetH):
\* c.scaler.Scale(destImg, destImg.Bounds(), img, img.Bounds(), Over, nil)
scaleToSize(c, im, tw, th, down) ==
    IF c.scaler \in KernelScalers THEN Kernel(c.scaler, im, tw, th, down)
    ELSE IF c.scaler = "ApproxBiLinear" THEN ApproxBiLinear(im, tw, th)
    ELSE NearestNeighbor(im, tw, th)

\* The ways the float64 means of one scaleToSize call can fall.
scaleTies(c, im, tw, th) ==
    IF c.scaler \in KernelScalers
    THEN SUBSET kernelTies(c.scaler, im, tw, th)
    ELSE { {} }

\* Mutant of targetHeightFor: a proportional height of 0 is kept.
targetHeightForNoFloor(c, origW, origH) ==
    IF c.targetHeight # 0 THEN c.targetHeight
    ELSE (2 * origH * c.targetWidth + origW) \div (2 * origW)

\* targetH: c.targetHeight, or when that is 0 the proportional height
\* int(math.Round(origH * targetW / origW)), at least 1.
targetHeightFor(c, origW, origH) ==
    IF c.targetHeight # 0 THEN c.targetHeight
    ELSE LET h == (2 * origH * c.targetWidth + origW) \div (2 * origW)
         IN  IF h = 0 THEN 1 ELSE h

\* Mutant of canvasSize: the declared size is used even when a dimension is 0.
canvasSizeDeclared(g) == <<g.Config.Width, g.Config.Height>>

\* compositeFrames' canvas size: the declared Config size, or the Max corner
\* of the first frame's bounds when either declared dimension is 0.
canvasSize(g) ==
    IF g.Config.Width = 0 \/ g.Config.Height = 0
    THEN g.Image[1].Max
    ELSE <<g.Config.Width, g.Config.Height>>

\* draw.Draw(canvas, frame.Bounds(), frame, frame.Bounds().Min, draw.Over):
\* the frame's pixels that fall on the canvas are composed over it.
drawFrame(cv, frame) ==
    [cv EXCEPT !.pix =
        [p \in DOMAIN cv.pix |->
            IF p \in DOMAIN frame.pix
            THEN overPixel(cv.pix[p], frame.pix[p]) ELSE cv.pix[p]]]

\* Mutant of snapshotOf: the snapshot shares the canvas's pixel array.
snapshotShared(cv) ==
    [nil |-> FALSE, Min |-> cv.Min, Max |-> cv.Max, pix |-> cv.pix,
     shared |-> TRUE]

\* snapshot := image.NewRGBA(canvas.Bounds()); copy(snapshot.Pix, canvas.Pix):
\* an image of the canvas's bounds with a pixel array of its own.
snapshotOf(cv) ==
    [nil |-> FALSE, Min |-> cv.Min, Max |-> cv.Max, pix |-> cv.pix,
     shared |-> FALSE]

\* The snapshots as they read once the canvas holds cv: a snapshot whose
\* pixel array is the canvas's own shows the canvas's pixels.
seenThrough(result, cv) ==
    [k \in DOMAIN result |->
        IF result[k].shared THEN [result[k] EXCEPT !.pix = cv.pix]
        ELSE result[k]]

\* gif.DisposalNone, gif.DisposalBackground and gif.DisposalPrevious.
DisposalNone == 1
DisposalBackground == 2
DisposalPrevious == 3

\* Mutant of dispose: a directive that is neither Background nor Previous,
\* or a missing one, clears the frame's area.
disposeElseClear(cv, frame, g, i, result) ==
    IF i < Len(g.Disposal) /\ g.Disposal[i + 1] = DisposalPrevious
    THEN IF i > 0 THEN [cv EXCEPT !.pix = result[i].pix] ELSE cv
    ELSE [cv EXCEPT !.pix =
            [p \in DOMAIN cv.pix |->
                IF p \in DOMAIN frame.pix THEN Transparent ELSE cv.pix[p]]]

\* Mutant of dispose: Background clears the whole canvas.
disposeClearCanvas(cv, frame, g, i, result) ==
    IF i >= Len(g.Disposal) THEN cv
    ELSE IF g.Disposal[i + 1] = DisposalBackground
    THEN [cv EXCEPT !.pix = [p \in DOMAIN cv.pix |-> Transparent]]
    ELSE IF g.Disposal[i + 1] = DisposalPrevious
    THEN IF i > 0 THEN [cv EXCEPT !.pix = result[i].pix] ELSE cv
    ELSE cv

\* Mutant of dispose: Previous leaves the canvas as it is.
disposePreviousKeeps(cv, frame, g, i, result) ==
    IF i >= Len(g.Disposal) THEN cv
    ELSE IF g.Disposal[i + 1] = DisposalBackground
    THEN [cv EXCEPT !.pix =
            [p \in DOMAIN cv.pix |->
                IF p \in DOMAIN frame.pix THEN Transparent ELSE cv.pix[p]]]
    ELSE cv

\* The disposal of frame i (from 0) once snapshot i has been appended to
\* result: Background clears the frame's area with draw.Src, Previous
\* copies result[i-1] back when i > 0, anything else leaves the canvas.
dispose(cv, frame, g, i, result) ==
    IF i >= Len(g.Disposal) THEN cv
    ELSE IF g.Disposal[i + 1] = DisposalBackground
    THEN [cv EXCEPT !.pix =
            [p \in DOMAIN cv.pix |->
                IF p \in DOMAIN frame.pix THEN Transparent ELSE cv.pix[p]]]
    ELSE IF g.Disposal[i + 1] = DisposalPrevious
    THEN IF i > 0 THEN [cv EXCEPT !.pix = result[i].pix] ELSE cv
    ELSE cv

----------------------------------------------------------------------------
(* Convert and ConvertGIF *)

\* Converters: New(WithTargetWidth(1)) and New(WithTargetWidth(2)), the
\* height left to be computed proportionally, the scaler and the
\* obfuscation left at their defaults.
Converters ==
    { [targetWidth |-> w, targetHeight |-> 0, scaler |-> "NearestNeighbor",
       obfuscate |-> FALSE] : w \in {1, 2} }

\* img arguments of Convert: nil, images without pixels, and small images.
SourceImages ==
    { [nil |-> TRUE] }
    \cup { UniformImage(<<0, 0>>, mx, Red8) : mx \in {<<0, 0>>, <<0, 1>>, <<1, 1>>} }
    \cup { [nil |-> FALSE, Min |-> <<0, 0>>, Max |-> <<2, 1>>,
            pix |-> [q \in RectPoints(<<0, 0>>, <<2, 1>>) |->
                       IF q[1] = 0 THEN Red8 ELSE c]] : c \in {Red8, Blue8} }
    \cup { [nil |-> FALSE, Min |-> <<0, 0>>, Max |-> <<1, 2>>,
            pix |-> [q \in RectPoints(<<0, 0>>, <<1, 2>>) |->
                       IF q[2] = 0 THEN Red8 ELSE Blue8]] }

\* Bounds of raw frames: empty at the origin, 1x1 at the origin, empty away
\* from the origin, and 1x1 away from the origin.
FrameRects ==
    { <<<<0, 0>>, <<0, 0>>>>, <<<<0, 0>>, <<1, 1>>>>,
      <<<<1, 0>>, <<1, 1>>>>, <<<<1, 0>>, <<2, 1>>>> }

\* Declared canvas sizes g.Config.Width, g.Config.Height.
GifConfigs == { <<0, 0>>, <<0, 1>>, <<1, 1>>, <<2, 1>> }

\* Frame i (from 1) over rectangle r: one color, alternating frame by frame.
FrameOver(r, i) == UniformImage(r[1], r[2], IF i % 2 = 1 THEN Red8 ELSE Blue8)

\* Animated sources of 0, 1 or 2 frames, every frame with disposal m.
ShortGifs ==
    { [nil |-> FALSE,
       Config |-> [Width |-> cfg[1], Height |-> cfg[2]],
       Image |-> [i \in 1 .. n |-> FrameOver(IF i = 1 THEN r1 ELSE r2, i)],
       Disposal |-> [i \in 1 .. n |-> m],
       Delay |-> <<0, 20>>] :
        cfg \in GifConfigs, n \in 0 .. 2, r1 \in FrameRects,
        r2 \in { <<<<0, 0>>, <<1, 1>>>>, <<<<1, 0>>, <<2, 1>>>> },
        m \in { DisposalNone, DisposalBackground, DisposalPrevious } }

\* Animated sources of 3 to MaxGifFrames frames of 1x1 on a 1x1 canvas.
LongGifs ==
    { [nil |-> FALSE,
       Config |-> [Width |-> 1, Height |-> 1],
       Image |-> [i \in 1 .. n |-> FrameOver(<<<<0, 0>>, <<1, 1>>>>, i)],
       Disposal |-> <<>>,
       Delay |-> <<>>] : n \in 3 .. MaxGifFrames }

\* g arguments of ConvertGIF.
GifInputs == { [nil |-> TRUE] } \cup ShortGifs \cup LongGifs

InitAPI ==
    /\ width = 1
    /\ height = 1
    /\ img = AsMeshImage(NewRGBA(1, 1))
    /\ ctxErr = "nil"
    /\ MeshIdle
    /\ apc = "start"
    /\ conv \in Converters
    /\ wr \in {"nil", "ok", "failing"}
    /\ \/ fn = "Convert" /\ src \in SourceImages /\ gif = [nil |-> TRUE]
       \/ fn = "ConvertGIF" /\ gif \in GifInputs /\ src = [nil |-> TRUE]
    /\ canvas = [nil |-> TRUE]
    /\ snaps = <<>>
    /\ fi = 0
    /\ frames = <<>>
    /\ allKeyframes = <<>>
    /\ out = <<>>
    /\ ret = "pending"
    /\ steps = NoSteps
    /\ kf = [frameCount |-> 0]
    /\ rnd = NoReads

\* The entry point returns err: nothing further runs.
Finish(err) ==
    /\ ret' = err
    /\ apc' = "done"

\* The error of a writer whose Write always fails, as the tests' errWriter.
AnError == "assert.AnError"

\* return tmpl.Execute(w, data): the page reaches the writer and nil is
\* returned, or the writer's Write fails, nothing is written and the error
\* of the Write is returned.
Execute(page) ==
    IF wr = "failing"
    THEN /\ out' = out
         /\ Finish(AnError)
    ELSE /\ out' = Append(out, page)
         /\ Finish("nil")

\* buildTable(ctx, im, w, h) is entered from buildTemplateData or buildRows
\* with w, h = bounds.Max.X, bounds.Max.Y: its locals are allocated.
EnterBuildTable(im) ==
    /\ img' = AsMeshImage(im)
    /\ width' = im.Max[1]
    /\ height' = im.Max[2]
    /\ visited' = makeVisited(im.Max[1], im.Max[2])
    /\ rows' = makeRows(im.Max[2])
    /\ currentRow' = <<>>
    /\ x' = 0
    /\ y' = 0
    /\ anchors' = <<>>
    /\ marks' = [ry \in 0 .. im.Max[2] - 1 |-> [rx \in 0 .. im.Max[1] - 1 |-> 0]]
    /\ pc' = "loop_y"
    /\ UNCHANGED results

\* Convert: the nil checks, then generateHTML.
ConvertEntry ==
    /\ fn = "Convert"
    /\ apc = "start"
    /\ IF src.nil THEN Finish("ErrNilImage")
       ELSE IF wr = "nil" THEN Finish("ErrNilWriter")
       ELSE apc' = "generateHTML" /\ UNCHANGED ret
    /\ UNCHANGED <<fn, conv, src, gif, wr, canvas, snaps, fi, frames,
                   allKeyframes, out, steps, kf>>
    /\ UNCHANGED <<ctxErr, polls, cancelPos>>
    /\ UNCHANGED meshVars
    /\ UNCHANGED rnd

\* generateHTML: if err := ctx.Err(); err != nil { return err }
GenerateHTML ==
    /\ apc = "generateHTML"
    /\ polls' = Append(polls, [site |-> "generateHTML", at |-> 0, err |-> ctxErr])
    /\ IF ctxErr # "nil" THEN Finish(ctxErr)
       ELSE apc' = "scaleImage" /\ UNCHANGED ret
    /\ UNCHANGED <<fn, conv, src, gif, wr, canvas, snaps, fi, frames,
                   allKeyframes, out, steps, kf>>
    /\ UNCHANGED <<ctxErr, cancelPos>>
    /\ UNCHANGED meshVars
    /\ UNCHANGED rnd

\* scaleImage: the dimension check, then the image scaled by
\* draw.NearestNeighbor whatever c.scaler is, which buildTemplateData hands
\* to buildTable.
ScaleImage ==
    /\ apc = "scaleImage"
    /\ IF Dx(src) = 0 \/ Dy(src) = 0
       THEN /\ Finish("ErrInvalidDimensions")
            /\ UNCHANGED steps
            /\ UNCHANGED meshVars
       ELSE /\ EnterBuildTable(NearestNeighbor(src, conv.targetWidth,
                                               targetHeightFor(conv, Dx(src), Dy(src))))
            /\ steps' = [steps EXCEPT !.scale = @ + 1, !.mesh = @ + 1]
            /\ apc' = "buildTable"
            /\ UNCHANGED ret
    /\ UNCHANGED <<fn, conv, src, gif, wr, canvas, snaps, fi, frames,
                   allKeyframes, out, kf>>
    /\ UNCHANGED <<ctxErr, polls, cancelPos>>
    /\ UNCHANGED rnd

\* buildTable has returned to buildTemplateData and generateHTML: the error
\* is passed on, or tmpl.Execute(w, data) writes the page.
ConvertFinish ==
    /\ apc = "buildTable"
    /\ pc = "idle"
    /\ LET res == results[Len(results)]
       IN  IF res.err # "nil"
           THEN Finish(res.err) /\ UNCHANGED out
           ELSE Execute([Width |-> width, Height |-> height,
                         Rows |-> res.rows])
    /\ UNCHANGED <<fn, conv, src, gif, wr, canvas, snaps, fi, frames,
                   allKeyframes, steps, kf>>
    /\ UNCHANGED <<ctxErr, polls, cancelPos>>
    /\ UNCHANGED meshVars
    /\ UNCHANGED rnd

\* Mutant of ConvertGIFEntry: the writer is checked before the GIF.
ConvertGIFEntryWriterFirst ==
    /\ fn = "ConvertGIF"
    /\ apc = "start"
    /\ IF wr = "nil" THEN Finish("ErrNilWriter")
       ELSE IF gif.nil THEN Finish("ErrNilGIF")
       ELSE IF Len(gif.Image) = 0 THEN Finish("ErrNoFrames")
       ELSE apc' = "generateGIFHTML" /\ UNCHANGED ret
    /\ UNCHANGED <<fn, conv, src, gif, wr, canvas, snaps, fi, frames,
                   allKeyframes, out, steps, kf>>
    /\ UNCHANGED <<ctxErr, polls, cancelPos>>
    /\ UNCHANGED meshVars
    /\ UNCHANGED rnd

\* ConvertGIF: the nil checks and the frame count, then generateGIFHTML.
ConvertGIFEntry ==
    /\ fn = "ConvertGIF"
    /\ apc = "start"
    /\ IF gif.nil THEN Finish("ErrNilGIF")
       ELSE IF wr = "nil" THEN Finish("ErrNilWriter")
       ELSE IF Len(gif.Image) = 0 THEN Finish("ErrNoFrames")
       ELSE apc' = "generateGIFHTML" /\ UNCHANGED ret
    /\ UNCHANGED <<fn, conv, src, gif, wr, canvas, snaps, fi, frames,
                   allKeyframes, out, steps, kf>>
    /\ UNCHANGED <<ctxErr, polls, cancelPos>>
    /\ UNCHANGED meshVars
    /\ UNCHANGED rnd

\* Mutant of GenerateGIFHTML: ctx.Err() is not consulted on entry.
GenerateGIFHTMLNoCheck ==
    /\ apc = "generateGIFHTML"
    /\ apc' = "compositeFrames"
    /\ UNCHANGED <<fn, conv, src, gif, wr, canvas, snaps, fi, frames,
                   allKeyframes, out, steps, kf, ret>>
    /\ UNCHANGED <<ctxErr, polls, cancelPos>>
    /\ UNCHANGED meshVars
    /\ UNCHANGED rnd

\* generateGIFHTML: if err := ctx.Err(); err != nil { return err }
GenerateGIFHTML ==
    /\ apc = "generateGIFHTML"
    /\ polls' = Append(polls,
                       [site |-> "generateGIFHTML", at |-> 0, err |-> ctxErr])
    /\ IF ctxErr # "nil" THEN Finish(ctxErr)
       ELSE apc' = "compositeFrames" /\ UNCHANGED ret
    /\ UNCHANGED <<fn, conv, src, gif, wr, canvas, snaps, fi, frames,
                   allKeyframes, out, steps, kf>>
    /\ UNCHANGED <<ctxErr, cancelPos>>
    /\ UNCHANGED meshVars
    /\ UNCHANGED rnd

\* compositeFrames up to its loop: the canvas and the empty result.
CompositeStart ==
    /\ apc = "compositeFrames"
    /\ LET sz == canvasSize(gif) IN canvas' = NewRGBA(sz[1], sz[2])
    /\ snaps' = <<>>
    /\ fi' = 0
    /\ apc' = "compositeLoop"
    /\ UNCHANGED <<fn, conv, src, gif, wr, frames, allKeyframes, out, ret,
                   steps, kf>>
    /\ UNCHANGED <<ctxErr, polls, cancelPos>>
    /\ UNCHANGED meshVars
    /\ UNCHANGED rnd

\* One iteration of compositeFrames' loop: frame fi is drawn onto the
\* canvas, the canvas is snapshotted, the frame's disposal is applied.
CompositeFrame ==
    /\ apc = "compositeLoop"
    /\ fi < Len(gif.Image)
    /\ LET frame == gif.Image[fi + 1]
           drawn == drawFrame(canvas, frame)
           result == seenThrough(Append(snaps, snapshotOf(drawn)), drawn)
           disposed == dispose(drawn, frame, gif, fi, result)
       IN  /\ snaps' = seenThrough(result, disposed)
           /\ canvas' = disposed
    /\ fi' = fi + 1
    /\ steps' = [steps EXCEPT !.draw = @ + 1, !.snapshot = @ + 1]
    /\ UNCHANGED <<fn, apc, conv, src, gif, wr, frames, allKeyframes, out, ret,
                   kf>>
    /\ UNCHANGED <<ctxErr, polls, cancelPos>>
    /\ UNCHANGED meshVars
    /\ UNCHANGED rnd

\* The target height generateGIFHTML computes from the first snapshot.
gifTargetH == targetHeightFor(conv, Dx(snaps[1]), Dy(snaps[1]))

\* generateGIFHTML after compositeFrames has returned: the dimension check
\* on the first snapshot, the target size, buildAllKeyframes.
GifDimensions ==
    /\ apc = "compositeLoop"
    /\ fi = Len(gif.Image)
    /\ IF Dx(snaps[1]) = 0 \/ Dy(snaps[1]) = 0
       THEN /\ Finish("ErrInvalidDimensions")
            /\ UNCHANGED <<allKeyframes, fi, frames>>
       ELSE /\ \E tie \in TieChoices(Len(snaps), gif) :
                  allKeyframes' = buildAllKeyframes(Len(snaps), gif, tie)
            /\ frames' = <<>>
            /\ fi' = 0
            /\ apc' = "frameLoop"
            /\ UNCHANGED ret
    /\ UNCHANGED <<fn, conv, src, gif, wr, canvas, snaps, out, steps, kf>>
    /\ UNCHANGED <<ctxErr, polls, cancelPos>>
    /\ UNCHANGED meshVars
    /\ UNCHANGED rnd

\* Mutant of pollFrame: every frame polls.
pollFrameAlways(i) == TRUE

\* if i%5 == 0: the frames at whose start ctx.Err() is evaluated.
pollFrame(i) == i % 5 = 0

\* Top of generateGIFHTML's frame loop: the poll every fifth frame, then
\* scaleToSize and buildRows, which enters buildTable.
FrameStart ==
    /\ apc = "frameLoop"
    /\ fi < Len(snaps)
    /\ polls' = IF pollFrame(fi)
                THEN Append(polls, [site |-> "frame", at |-> fi, err |-> ctxErr])
                ELSE polls
    /\ IF pollFrame(fi) /\ ctxErr # "nil"
       THEN /\ Finish(ctxErr)
            /\ UNCHANGED steps
            /\ UNCHANGED meshVars
       ELSE /\ \E down \in scaleTies(conv, snaps[fi + 1],
                                       conv.targetWidth, gifTargetH) :
                  EnterBuildTable(scaleToSize(conv, snaps[fi + 1],
                                              conv.targetWidth, gifTargetH,
                                              down))
            /\ steps' = [steps EXCEPT !.scale = @ + 1, !.mesh = @ + 1]
            /\ apc' = "buildRows"
            /\ UNCHANGED ret
    /\ UNCHANGED <<fn, conv, src, gif, wr, canvas, snaps, fi, frames,
                   allKeyframes, out, kf>>
    /\ UNCHANGED <<ctxErr, cancelPos>>
    /\ UNCHANGED rnd

\* buildRows has returned: its error is passed on, or the frame's rows and
\* keyframes are appended to frames.
FrameEnd ==
    /\ apc = "buildRows"
    /\ pc = "idle"
    /\ LET res == results[Len(results)]
       IN  IF res.err # "nil"
           THEN Finish(res.err) /\ UNCHANGED <<frames, fi>>
           ELSE /\ frames' = Append(frames, [Rows |-> res.rows,
                                             Keyframes |-> allKeyframes[fi + 1]])
                /\ fi' = fi + 1
                /\ apc' = "frameLoop"
                /\ UNCHANGED ret
    /\ UNCHANGED <<fn, conv, src, gif, wr, canvas, snaps, allKeyframes, out,
                   steps, kf>>
    /\ UNCHANGED <<ctxErr, polls, cancelPos>>
    /\ UNCHANGED meshVars
    /\ UNCHANGED rnd

\* fmt.Sprintf("%.3fs", cumulativeDelay) for a whole number of centiseconds.
sprintfDuration(cs) ==
    decimal(cs \div 100) \o <<".">> \o
    <<DecDigits[((cs \div 10) % 10) + 1], DecDigits[(cs % 10) + 1], "0", "s">>

\* End of the frame loop: gifTmpl.Execute(w, data) writes the page.
GifExecute ==
    /\ apc = "frameLoop"
    /\ fi = Len(snaps)
    /\ Execute([Width |-> conv.targetWidth,
                Height |-> gifTargetH,
                TotalDurationCSS |->
                    sprintfDuration(cumulativeAt(gif, Len(snaps))),
                Frames |-> frames])
    /\ UNCHANGED <<fn, conv, src, gif, wr, canvas, snaps, fi, frames,
                   allKeyframes, steps, kf>>
    /\ UNCHANGED <<ctxErr, polls, cancelPos>>
    /\ UNCHANGED meshVars
    /\ UNCHANGED rnd

----------------------------------------------------------------------------
(* compositeFrames on its own *)

\* Raw frames on a 2x1 canvas: two over the whole canvas (red beside
\* transparent, transparent beside blue), one over the left pixel (blue)
\* and one over the right pixel (red).
CompositeFrames ==
    { [nil |-> FALSE, Min |-> <<0, 0>>, Max |-> <<2, 1>>,
       pix |-> [q \in RectPoints(<<0, 0>>, <<2, 1>>) |->
                  IF q[1] = 0 THEN c[1] ELSE c[2]]] :
        c \in { <<Red8, Transparent>>, <<Transparent, Blue8>> } }
    \cup { UniformImage(<<0, 0>>, <<1, 1>>, Blue8),
           UniformImage(<<1, 0>>, <<2, 1>>, Red8) }

\* Disposal lists of at most n entries: unspecified (0), None, Background
\* and Previous.
DisposalLists(n) ==
    UNION { [1 .. k -> {0, DisposalNone, DisposalBackground, DisposalPrevious}] :
            k \in 0 .. n }

InitComposite ==
    /\ width = 1
    /\ height = 1
    /\ img = AsMeshImage(NewRGBA(1, 1))
    /\ ctxErr = "nil"
    /\ MeshIdle
    /\ fn = "compositeFrames"
    /\ apc = "compositeFrames"
    /\ conv = [targetWidth |-> 2, targetHeight |-> 0,
               scaler |-> "NearestNeighbor", obfuscate |-> FALSE]
    /\ src = [nil |-> TRUE]
    /\ \E n \in 1 .. MaxCompFrames :
          \E fs \in [1 .. n -> CompositeFrames], ds \in DisposalLists(n) :
              gif = [nil |-> FALSE, Config |-> [Width |-> 2, Height |-> 1],
                     Image |-> fs, Disposal |-> ds, Delay |-> <<>>]
    /\ wr = "ok"
    /\ canvas = [nil |-> TRUE]
    /\ snaps = <<>>
    /\ fi = 0
    /\ frames = <<>>
    /\ allKeyframes = <<>>
    /\ out = <<>>
    /\ ret = "pending"
    /\ steps = NoSteps
    /\ kf = [frameCount |-> 0]
    /\ rnd = NoReads

NextComposite == CompositeStart \/ CompositeFrame

SpecComposite == InitComposite /\ [][NextComposite]_vars

NextAPI ==
    \/ ConvertEntry \/ GenerateHTML \/ ScaleImage \/ ConvertFinish
    \/ ConvertGIFEntry \/ GenerateGIFHTML \/ CompositeStart \/ CompositeFrame
    \/ GifDimensions \/ FrameStart \/ FrameEnd \/ GifExecute
    \/ RowStart \/ SkipVisited \/ EmitCell \/ RowEnd \/ Return
    \/ Cancel

SpecAPI == InitAPI /\ [][NextAPI]_vars

----------------------------------------------------------------------------
(* New and its options *)

DefaultTargetWidth == 56

\* WithTargetWidth(w): if w > 0 { c.targetWidth = w }
WithTargetWidth(c, w) == IF w > 0 THEN [c EXCEPT !.targetWidth = w] ELSE c

\* WithTargetHeight(h): if h > 0 { c.targetHeight = h }
WithTargetHeight(c, h) == IF h > 0 THEN [c EXCEPT !.targetHeight = h] ELSE c

\* WithHTMLWrapper(enabled, title) sets neither dimension.
WithHTMLWrapper(c) == c

\* WithScaler(s): if s != nil { c.scaler = s }
WithScaler(c, s) == IF s # "nil" THEN [c EXCEPT !.scaler = s] ELSE c

\* WithObfuscation(enabled): c.obfuscate = enabled
WithObfuscation(c, enabled) == [c EXCEPT !.obfuscate = enabled]

\* opt(c) for an option given as its name and argument.
applyOption(c, o) ==
    IF o.opt = "WithTargetWidth" THEN WithTargetWidth(c, o.v)
    ELSE IF o.opt = "WithTargetHeight" THEN WithTargetHeight(c, o.v)
    ELSE IF o.opt = "WithScaler" THEN WithScaler(c, o.s)
    ELSE IF o.opt = "WithObfuscation" THEN WithObfuscation(c, o.enabled)
    ELSE WithHTMLWrapper(c)

\* for _, opt := range opts { opt(c) }, from option k on.
RECURSIVE applyOptions(_, _, _)
applyOptions(c, opts, k) ==
    IF k > Len(opts) THEN c
    ELSE applyOptions(applyOption(c, opts[k]), opts, k + 1)

\* New(opts...): the defaults, then every option in order.
New(opts) ==
    applyOptions([targetWidth |-> DefaultTargetWidth, targetHeight |-> 0,
                  scaler |-> "NearestNeighbor", obfuscate |-> FALSE],
                 opts, 1)

\* The scalers of golang.org/x/image/draw.
Scalers == {"NearestNeighbor", "ApproxBiLinear", "BiLinear", "CatmullRom"}

\* Options: widths and heights that are negative, zero and positive, an
\* option that sets no dimension, a nil scaler and each scaler of the
\* library, and obfuscation switched on and off.
Options ==
    { [opt |-> n, v |-> v] :
        n \in {"WithTargetWidth", "WithTargetHeight"}, v \in {-1, 0, 1, 2} }
    \cup { [opt |-> "WithHTMLWrapper", v |-> 0] }
    \cup { [opt |-> "WithScaler", s |-> s] : s \in {"nil"} \cup Scalers }
    \cup { [opt |-> "WithObfuscation", enabled |-> b] : b \in BOOLEAN }

\* Sources of random numbers, each the Uint64 values of its reads, of which
\* the code uses the remainders by 5 and by 2: the first read of a cell
\* picks uppercase hex, rgb(), hsl(), lowercase hex under a property name
\* in lowercase, and hex of mixed case.
RandomSources ==
    { [reads |-> rs, pos |-> 0] :
        rs \in { <<1, 0, 2>>, <<3, 1, 1>>, <<4, 0, 1>>,
                 <<0, 1, 1, 1, 1, 1, 1, 1, 1, 1, 1, 1, 1, 1, 1, 1, 1>>,
                 <<2, 0, 1, 1, 0, 7, 9, 4>> } }

\* The option lists of at most n options.
OptionLists(n) == UNION { [1 .. k -> Options] : k \in 0 .. n }

\* img arguments: without pixels, and four pixels in a row of two colors.
ScaleSources ==
    { UniformImage(<<0, 0>>, mx, Red8) : mx \in {<<0, 1>>, <<1, 0>>} }
    \cup { [nil |-> FALSE, Min |-> <<0, 0>>, Max |-> <<4, 1>>,
            pix |-> [q \in RectPoints(<<0, 0>>, <<4, 1>>) |->
                       IF q[1] < 2 THEN Red8 ELSE Blue8]] }

\* A color whose hue is a whole number of degrees that float64 may fall
\* short of.
Slate8 == [R |-> 10, G |-> 20, B |-> 30, A |-> 255]

\* g arguments of one frame: a frame without pixels on a canvas declared
\* 0x0, and a frame of eight pixels in a row on a canvas declared 0x0 or
\* 16x1.
ScaleGifs ==
    { [nil |-> FALSE,
       Config |-> [Width |-> g[1][1], Height |-> g[1][2]],
       Image |-> <<UniformImage(<<0, 0>>, g[2], Slate8)>>,
       Disposal |-> <<>>,
       Delay |-> <<>>] :
        g \in { << <<0, 0>>, <<0, 0>> >>, << <<0, 0>>, <<8, 1>> >>,
                << <<16, 1>>, <<8, 1>> >> } }

\* A program about to call New(opts...) and then Convert or ConvertGIF on
\* the converter; conv holds the options until New has run. Where no
\* option asks ConvertGIF for obfuscation the source of random numbers is
\* not read, and one source stands for all.
InitOptions ==
    /\ width = 1
    /\ height = 1
    /\ img = AsMeshImage(NewRGBA(1, 1))
    /\ ctxErr = "nil"
    /\ MeshIdle
    /\ apc = "New"
    /\ \E o \in OptionLists(MaxOpts) : conv = [opts |-> o]
    /\ wr = "ok"
    /\ \/ fn = "Convert" /\ src \in ScaleSources /\ gif = [nil |-> TRUE]
       \/ fn = "ConvertGIF" /\ gif \in ScaleGifs /\ src = [nil |-> TRUE]
    /\ canvas = [nil |-> TRUE]
    /\ snaps = <<>>
    /\ fi = 0
    /\ frames = <<>>
    /\ allKeyframes = <<>>
    /\ out = <<>>
    /\ ret = "pending"
    /\ steps = NoSteps
    /\ kf = [frameCount |-> 0]
    /\ IF /\ fn = "ConvertGIF"
          /\ \E k \in DOMAIN conv.opts :
                conv.opts[k].opt = "WithObfuscation" /\ conv.opts[k].enabled
       THEN rnd \in RandomSources
       ELSE rnd = NoReads

\* c := New(opts...)
NewConverter ==
    /\ apc = "New"
    /\ conv' = New(conv.opts)
    /\ apc' = "start"
    /\ UNCHANGED <<fn, src, gif, wr, canvas, snaps, fi, frames, allKeyframes,
                   out, ret, steps, kf>>
    /\ UNCHANGED <<ctxErr, polls, cancelPos>>
    /\ UNCHANGED meshVars
    /\ UNCHANGED rnd

NextOptions ==
    \/ NewConverter
    \/ ConvertEntry \/ GenerateHTML \/ ScaleImage \/ ConvertFinish
    \/ ConvertGIFEntry \/ GenerateGIFHTML \/ CompositeStart \/ CompositeFrame
    \/ GifDimensions \/ FrameStart \/ FrameEnd \/ GifExecute
    \/ RowStart \/ SkipVisited \/ EmitCell \/ RowEnd \/ Return

SpecOptions == InitOptions /\ [][NextOptions]_vars

----------------------------------------------------------------------------
(* Vocabulary of the properties *)

\* A call has returned without error; the locals still hold that call's state.
Completed ==
    /\ pc = "idle"
    /\ results # <<>>
    /\ results[Len(results)].err = "nil"

\* A call has been entered at least once, so the locals are allocated.
Started == pc # "idle" \/ results # <<>>

\* The layout returned by the latest call.
Layout == results[Len(results)].rows

Max(S) == LET T == S IN CHOOSE m \in T : \A n \in T : n <= m
Min(S) == LET T == S IN CHOOSE m \in T : \A n \in T : m <= n

\* Reading "#rrggbb" back into its three 8-bit components.
hexVal(ch) == (CHOOSE i \in 1 .. 16 : HexDigits[i] = ch) - 1
parseColor(s) ==
    << 16 * hexVal(s[2]) + hexVal(s[3]),
       16 * hexVal(s[4]) + hexVal(s[5]),
       16 * hexVal(s[6]) + hexVal(s[7]) >>

RectOf(a) ==
    (a.x .. a.x + a.cell.Colspan - 1) \X (a.y .. a.y + a.cell.Rowspan - 1)

AnchorIdx == DOMAIN anchors

\* The anchor's width was stopped by an already visited pixel of its own color.
StoppedByVisited(a) ==
    /\ a.x + a.cell.Colspan < width
    /\ a.mask[a.y][a.x + a.cell.Colspan]
    /\ colorAt(img, a.x + a.cell.Colspan, a.y) = colorAt(img, a.x, a.y)

Uniform ==
    \A p, q \in Coords(width, height) :
        colorAt(img, p[1], p[2]) = colorAt(img, q[1], q[2])

UsedColors == { colorAt(img, p[1], p[2]) : p \in Coords(width, height) }

----------------------------------------------------------------------------
(* C1 .. C10: the mesher *)

\* C1: the rectangles of the emitted cells lie inside the grid and never
\* overlap (markVisited never writes a coordinate twice); once buildTable has
\* returned without cancellation every pixel is visited and lies in exactly
\* one rectangle.
C1_Coverage ==
    /\ Started =>
          /\ \A i \in AnchorIdx :
                /\ anchors[i].cell.Colspan >= 1
                /\ anchors[i].cell.Rowspan >= 1
                /\ anchors[i].x + anchors[i].cell.Colspan <= width
                /\ anchors[i].y + anchors[i].cell.Rowspan <= height
          /\ \A i, j \in AnchorIdx :
                i # j => RectOf(anchors[i]) \cap RectOf(anchors[j]) = {}
          /\ \A p \in Coords(width, height) :
                /\ marks[p[2]][p[1]] <= 1
                /\ visited[p[2]][p[1]] <=> marks[p[2]][p[1]] = 1
    /\ Completed =>
          \A p \in Coords(width, height) :
             /\ visited[p[2]][p[1]]
             /\ marks[p[2]][p[1]] = 1
             /\ Cardinality({ i \in AnchorIdx : p \in RectOf(anchors[i]) }) = 1

\* A finished pass in which some anchor's width was cut short by a pixel of
\* its own color that a taller cell from above had already taken.
C1_Witness ==
    /\ Completed
    /\ \E i \in AnchorIdx : StoppedByVisited(anchors[i])
    /\ \E i \in AnchorIdx : anchors[i].cell.Rowspan >= 2

\* C2: every pixel inside an emitted cell's rectangle has the 8-bit RGB
\* components that the cell's color string spells, and that color is the one
\* sampled at the anchor.
C2_Monochrome ==
    \A i \in AnchorIdx :
        /\ parseColor(anchors[i].cell.Color) = colorAt(img, anchors[i].x, anchors[i].y)
        /\ \A p \in RectOf(anchors[i]) :
              colorAt(img, p[1], p[2]) = parseColor(anchors[i].cell.Color)

\* A finished pass over a grid of several colors holding a cell that spans at
\* least two columns and two rows.
C2_Witness ==
    /\ Completed
    /\ Cardinality(UsedColors) >= 2
    /\ \E i \in AnchorIdx :
          /\ anchors[i].cell.Colspan >= 2
          /\ anchors[i].cell.Rowspan >= 2
          /\ anchors[i].cell.Color = <<"#", "0", "a", "1", "4", "1", "e">>

\* C3: against the mask as it stood when the anchor was processed, the pixel
\* right of the recorded width is out of the grid, visited or of another
\* color, and the row below the recorded height is out of the grid or holds,
\* within the cell's columns, a pixel that is visited or of another color.
C3_Maximal ==
    \A i \in AnchorIdx :
        LET a == anchors[i]
            w == a.cell.Colspan
            h == a.cell.Rowspan
            c == colorAt(img, a.x, a.y)
        IN  /\ \/ a.x + w = width
               \/ a.mask[a.y][a.x + w]
               \/ colorAt(img, a.x + w, a.y) # c
            /\ \/ a.y + h = height
               \/ \E k \in 0 .. w - 1 :
                     \/ a.mask[a.y + h][a.x + k]
                     \/ colorAt(img, a.x + k, a.y + h) # c

\* A finished pass with one anchor stopped on its right by a visited pixel of
\* its own color and one anchor stopped below by a pixel of another color.
C3_Witness ==
    /\ Completed
    /\ \E i \in AnchorIdx : StoppedByVisited(anchors[i])
    /\ \E i \in AnchorIdx :
          LET a == anchors[i]
          IN  /\ a.y + a.cell.Rowspan < height
              /\ a.cell.Colspan >= 2
              /\ \E k \in 1 .. a.cell.Colspan - 1 :
                    colorAt(img, a.x + k, a.y + a.cell.Rowspan)
                        # colorAt(img, a.x, a.y)

\* C4: every call of buildTable on the same grid returns the same layout, and
\* each call starts from a mask with nothing visited and from empty rows.
C4_Deterministic ==
    /\ \A i, j \in DOMAIN results : results[i] = results[j]
    /\ (pc = "loop_y" /\ y = 0) =>
          /\ \A p \in Coords(width, height) : ~visited[p[2]][p[1]]
          /\ \A ry \in 0 .. height - 1 : rows[ry] = <<>>
          /\ DOMAIN visited = 0 .. height - 1
          /\ DOMAIN rows = 0 .. height - 1

\* Two calls have returned on a grid whose layout has a row of several cells
\* and a row left empty.
C4_Witness ==
    /\ pc = "idle"
    /\ Len(results) >= 2
    /\ \E ry \in DOMAIN Layout : Len(Layout[ry]) >= 2
    /\ \E ry \in DOMAIN Layout : Layout[ry] = <<>>

\* The anchors of row ry, in emission order.
AnchorsOfRow(ry) == SelectSeq(anchors, LAMBDA a : a.y = ry)

CellsOfRow(ry) ==
    LET sel == AnchorsOfRow(ry) IN [k \in 1 .. Len(sel) |-> sel[k].cell]

\* Every column of row ry lies in a rectangle anchored on an earlier row.
ConsumedFromAbove(ry) ==
    \A rx \in 0 .. width - 1 :
        \E i \in AnchorIdx : anchors[i].y < ry /\ <<rx, ry>> \in RectOf(anchors[i])

\* C5: buildTable returns exactly `height` rows; row ry lists exactly the
\* cells anchored on row ry, by increasing anchor x; a row consumed by
\* rectangles anchored above is present and empty.
C5_RowListing ==
    Completed =>
        /\ DOMAIN Layout = 0 .. height - 1
        /\ Cardinality(DOMAIN Layout) = height
        /\ \A ry \in 0 .. height - 1 :
              /\ Layout[ry] = CellsOfRow(ry)
              /\ \A k, l \in DOMAIN AnchorsOfRow(ry) :
                    k < l => AnchorsOfRow(ry)[k].x < AnchorsOfRow(ry)[l].x
              /\ ConsumedFromAbove(ry) => Layout[ry] = <<>>

\* A finished pass whose layout has a row of several cells, a row that is
\* empty, and a row that lists fewer cells than it has columns left unmerged.
C5_Witness ==
    /\ Completed
    /\ \E ry \in 0 .. height - 1 : Len(Layout[ry]) >= 2
    /\ \E ry \in 1 .. height - 1 : ConsumedFromAbove(ry) /\ Layout[ry] = <<>>
    /\ \E ry \in 1 .. height - 1 : ~ConsumedFromAbove(ry) /\ Len(Layout[ry]) >= 1

\* C6 as stated: a uniform grid yields a layout of exactly one row, holding
\* one cell of width W and height H.
C6_UniformOneRow ==
    (Completed /\ Uniform) =>
        /\ Cardinality(DOMAIN Layout) = 1
        /\ Len(Layout[0]) = 1
        /\ Layout[0][1].Colspan = width
        /\ Layout[0][1].Rowspan = height

\* C6 amended: a uniform W x H grid yields H rows; row 0 holds exactly one
\* cell, of colspan W and rowspan H, and every other row is empty.
C6_UniformOneCell ==
    (Completed /\ Uniform) =>
        /\ DOMAIN Layout = 0 .. height - 1
        /\ Len(Layout[0]) = 1
        /\ Layout[0][1].Colspan = width
        /\ Layout[0][1].Rowspan = height
        /\ parseColor(Layout[0][1].Color) = colorAt(img, 0, 0)
        /\ \A ry \in 1 .. height - 1 : Layout[ry] = <<>>

\* A finished pass over a uniform grid of at least two columns and two rows.
C6_Witness ==
    /\ Completed
    /\ Uniform
    /\ width >= 2
    /\ height >= 2

\* No two horizontally or vertically adjacent pixels have the same RGB color.
NoAdjacentEqual ==
    \A p, q \in Coords(width, height) :
        ( \/ (p[1] + 1 = q[1] /\ p[2] = q[2])
          \/ (p[1] = q[1] /\ p[2] + 1 = q[2]) )
        => colorAt(img, p[1], p[2]) # colorAt(img, q[1], q[2])

\* C7: on a grid without equal adjacent pixels buildTable emits H rows of
\* exactly W cells, each of colspan 1 and rowspan 1.
C7_NoMerge ==
    (Completed /\ NoAdjacentEqual) =>
        /\ DOMAIN Layout = 0 .. height - 1
        /\ \A ry \in 0 .. height - 1 :
              /\ Len(Layout[ry]) = width
              /\ \A k \in 1 .. width :
                    /\ Layout[ry][k].Colspan = 1
                    /\ Layout[ry][k].Rowspan = 1
                    /\ parseColor(Layout[ry][k].Color) = colorAt(img, k - 1, ry)

\* A finished pass over a grid of at least 2 x 2 pixels in three colors with
\* no equal adjacent pixels.
C7_Witness ==
    /\ Completed
    /\ NoAdjacentEqual
    /\ width >= 2
    /\ height >= 2
    /\ Cardinality(UsedColors) >= 3

\* The columns of row 0 where a maximal run of equal color begins.
RunStarts ==
    { i \in 0 .. width - 1 : i = 0 \/ colorAt(img, i - 1, 0) # colorAt(img, i, 0) }

RunLen(i) == Min({ j \in RunStarts \cup {width} : j > i }) - i

NthRunStart(k) ==
    CHOOSE s \in RunStarts : Cardinality({ t \in RunStarts : t < s }) = k - 1

\* C8: on a grid of height 1 the single row lists exactly the maximal runs of
\* equal color from left to right, each with colspan its run length and
\* rowspan 1.
C8_Runs ==
    (Completed /\ height = 1) =>
        /\ DOMAIN Layout = {0}
        /\ Len(Layout[0]) = Cardinality(RunStarts)
        /\ \A k \in 1 .. Len(Layout[0]) :
              /\ Layout[0][k].Colspan = RunLen(NthRunStart(k))
              /\ Layout[0][k].Rowspan = 1
              /\ parseColor(Layout[0][k].Color) = colorAt(img, NthRunStart(k), 0)

\* A finished pass over a 6 x 1 grid of three runs of two pixels in three
\* colors: three cells of colspan 2.
C8_Witness ==
    /\ Completed
    /\ height = 1
    /\ width = 6
    /\ Len(Layout[0]) = 3
    /\ \A k \in 1 .. 3 : Layout[0][k].Colspan = 2
    /\ Cardinality({ Layout[0][k].Color : k \in 1 .. 3 }) = 3

\* The number of cells of the returned layout.
RECURSIVE SumLen(_, _)
SumLen(lay, n) == IF n = 0 THEN 0 ELSE Len(lay[n - 1]) + SumLen(lay, n - 1)

CellCount == SumLen(Layout, height)

\* The first pixel in raster order outside cov.
FirstFree(cov) ==
    CHOOSE p \in Coords(width, height) \ cov :
        \A q \in Coords(width, height) \ cov :
            p[2] < q[2] \/ (p[2] = q[2] /\ p[1] <= q[1])

BlockAt(p, w, h) == (p[1] .. p[1] + w - 1) \X (p[2] .. p[2] + h - 1)

\* The monochrome blocks with top-left corner p that avoid cov.
BlocksAt(p, cov) ==
    { BlockAt(p, wh[1], wh[2]) :
        wh \in { v \in (1 .. width - p[1]) \X (1 .. height - p[2]) :
                    \A q \in BlockAt(p, v[1], v[2]) :
                        /\ q \notin cov
                        /\ colorAt(img, q[1], q[2]) = colorAt(img, p[1], p[2]) } }

\* The least number of monochrome rectangles that tile the pixels outside cov
\* (in any tiling the first free pixel in raster order is the top-left corner
\* of its rectangle).
RECURSIVE MinTiling(_)
MinTiling(cov) ==
    IF cov = Coords(width, height)
    THEN 0
    ELSE LET p == FirstFree(cov)
         IN  1 + Min({ MinTiling(cov \cup b) : b \in BlocksAt(p, cov) })

MinCells == MinTiling({})

\* C9: the number of cells buildTable emits equals the minimum number of
\* cells over all partitions of the grid into monochrome rectangles, as the
\* doc comment of buildTable and the README promise. It fails on the 3x2 grid
\* B C B / C C C, where the pass emits 5 cells and 4 suffice.
C9_FewestCells == Completed => CellCount = MinCells

\* The longest run of the anchor's color from (ax, ay) rightwards, over the
\* image colors alone.
ColorRunW(ax, ay) ==
    Max({ n \in 1 .. width - ax :
            \A k \in 0 .. n - 1 : colorAt(img, ax + k, ay) = colorAt(img, ax, ay) })

\* The longest run from (ax, ay) rightwards of pixels of the anchor's color
\* that are not visited in mask.
FreeRunW(ax, ay, mask) ==
    Max({ n \in 1 .. width - ax :
            \A k \in 0 .. n - 1 :
                /\ colorAt(img, ax + k, ay) = colorAt(img, ax, ay)
                /\ k >= 1 => ~mask[ay][ax + k] })

\* The tallest block of width w and of the anchor's color from (ax, ay)
\* downwards, over the image colors alone.
ColorRunH(ax, ay, w) ==
    Max({ m \in 1 .. height - ay :
            \A j \in 0 .. m - 1 : \A k \in 0 .. w - 1 :
                colorAt(img, ax + k, ay + j) = colorAt(img, ax, ay) })

\* C10: colspan and rowspan of every cell are the maxima w and h of the
\* README and of expandWidth's comment, taken over the image colors alone. It
\* fails on the 2x2 grid B C / C C, where the cell anchored at (0, 1) has
\* colspan 1 although its color runs over 2 pixels.
C10_ColorOnlySpans ==
    \A i \in AnchorIdx :
        LET a == anchors[i]
            w == ColorRunW(a.x, a.y)
        IN  /\ a.cell.Colspan = w
            /\ a.cell.Rowspan = ColorRunH(a.x, a.y, w)

\* ------------------------------------------------------------------------
\* Width before height.

\* The images that differ from img in exactly one pixel strictly below row ay.
VariantsBelow(ay) ==
    { [img EXCEPT ![p] = q] :
        p \in { r \in Coords(width, height) : r[2] > ay }, q \in Palette }

\* C18: at every anchor the width is fixed first, from the anchor row only
\* (the run of unvisited pixels of the anchor's color), and the height is
\* then grown for exactly that width; recoloring a pixel below the anchor row
\* never changes the recorded width, and the cell keeps the full run of its
\* row even when a narrower rectangle at the anchor would be taller.
C18_WidthFirst ==
    \A i \in AnchorIdx :
        LET a == anchors[i]
            c == colorAt(img, a.x, a.y)
        IN  /\ a.cell.Colspan = FreeRunW(a.x, a.y, a.mask)
            /\ a.cell.Rowspan = ColorRunH(a.x, a.y, a.cell.Colspan)
            /\ \A im \in VariantsBelow(a.y) :
                  expandWidth(im, a.mask[a.y], a.x, a.y, width, c)
                    = a.cell.Colspan
            /\ \A n \in 1 .. a.cell.Colspan - 1 :
                  ColorRunH(a.x, a.y, n) >= a.cell.Rowspan

\* A finished pass with an anchor whose region admits both rectangles: the
\* emitted cell is at least two wide and a narrower rectangle at the same
\* anchor would be strictly taller.
C18_Witness ==
    /\ Completed
    /\ \E i \in AnchorIdx :
          LET a == anchors[i]
          IN  /\ a.cell.Colspan >= 2
              /\ \E n \in 1 .. a.cell.Colspan - 1 :
                    ColorRunH(a.x, a.y, n) > a.cell.Rowspan

\* ------------------------------------------------------------------------
\* Cancellation cadence of buildTable.

\* The rows whose loop iteration has begun in the running or last call.
StartedRows ==
    IF pc = "loop_y" THEN 0 .. y - 1
    ELSE IF pc = "loop_x" THEN 0 .. y
    ELSE IF results[Len(results)].err = "nil" THEN 0 .. height - 1
    ELSE 0 .. polls[Len(polls)].at

\* The index of the running or last call (calls are numbered from 0).
ThisCall == IF pc = "idle" THEN Len(results) - 1 ELSE Len(results)

\* The smallest multiple of 10 that is at least n.
Ceil10(n) == ((n + 9) \div 10) * 10

\* The first row whose poll can see the cancellation: row 0 when the context
\* was cancelled before the call; otherwise the next multiple of 10 whose
\* row had not yet started when the context was cancelled; height when the
\* context is not cancelled or was cancelled after the call returned.
ObservingRow ==
    IF cancelPos.pc = "never" \/ cancelPos.call > ThisCall THEN height
    ELSE IF cancelPos.call < ThisCall \/ cancelPos.pc = "idle" THEN 0
    ELSE IF cancelPos.pc = "loop_y" THEN Ceil10(cancelPos.y)
    ELSE Ceil10(cancelPos.y + 1)

\* C19: buildTable evaluates ctx.Err() exactly once at the start of every row
\* y with y mod 10 = 0 and at no other row; after a cancellation no row at or
\* beyond the next multiple of 10 is meshed and the pass returns nil rows
\* with the context's error there; a cancellation after the start of the
\* last polled row is not observed, the pass returning the complete layout
\* and a nil error.
C19_PollCadence ==
    Started =>
        /\ \A k \in DOMAIN polls : polls[k].at = 10 * (k - 1)
        /\ { polls[k].at : k \in DOMAIN polls }
             = { r \in StartedRows : r % 10 = 0 }
        /\ \A i \in AnchorIdx : anchors[i].y < ObservingRow
        /\ pc # "idle" => y <= ObservingRow /\ y <= height
        /\ pc = "idle" =>
              LET res == results[Len(results)]
              IN  IF ObservingRow < height
                  THEN /\ res.err = ctxErr
                       /\ res.err # "nil"
                       /\ res.rows = <<>>
                       /\ polls[Len(polls)].at = ObservingRow
                  ELSE /\ res.err = "nil"
                       /\ DOMAIN res.rows = 0 .. height - 1
                       /\ \A p \in Coords(width, height) :
                             \E i \in AnchorIdx : p \in RectOf(anchors[i])

\* A pass cancelled in the middle of a row between two polls: it went on
\* meshing through row 9, polled at row 10 and returned the error there.
C19_Witness ==
    /\ pc = "idle"
    /\ Len(results) = 1
    /\ results[1].err = "context canceled"
    /\ results[1].rows = <<>>
    /\ cancelPos.call = 0
    /\ cancelPos.pc = "loop_x"
    /\ cancelPos.y \in 1 .. 8
    /\ Len(polls) = 2
    /\ \E i \in AnchorIdx : anchors[i].y = 9

\* A pass cancelled after its last poll: the cancellation is never seen.
C19_Unobserved ==
    /\ pc = "idle"
    /\ Len(results) = 1
    /\ results[1].err = "nil"
    /\ ctxErr # "nil"
    /\ cancelPos.y >= 10

\* ------------------------------------------------------------------------
\* Frame delays and the timeline.

\* The normalized delay of a raw delay list at position i (from 1), written
\* from the rule: the raw delay when positive, otherwise 10 centiseconds.
NormAt(d, i) == IF i \in DOMAIN d /\ d[i] > 0 THEN d[i] ELSE 10

RECURSIVE SumTo(_, _)
SumTo(d, n) == IF n = 0 THEN 0 ELSE SumTo(d, n - 1) + NormAt(d, n)

KfDone == apc = "kf_done" /\ kf.frameCount >= 1

\* C16: the normalized delay of frame i is Delay[i] when Delay[i] > 0 and
\* exactly 10 centiseconds when Delay[i] is 0 or i is beyond the end of the
\* list; every normalized delay is strictly positive; the total is their
\* sum; delays [10,0,20] normalize to [10,10,20] with total 40.
C16_Delays ==
    KfDone =>
        /\ \A i \in 1 .. kf.frameCount :
              /\ i <= Len(gif.Delay) /\ gif.Delay[i] > 0
                    => kf.delays[i] = gif.Delay[i]
              /\ i <= Len(gif.Delay) /\ gif.Delay[i] = 0 => kf.delays[i] = 10
              /\ i > Len(gif.Delay) => kf.delays[i] = 10
              /\ kf.delays[i] > 0
        /\ kf.total = SumTo(kf.delays, kf.frameCount)
        /\ gif.Delay = <<10, 0, 20>> /\ kf.frameCount = 3
              => kf.delays = <<10, 10, 20>> /\ kf.total = 40

\* Three frames with delays [10,0,20]: the zero delay has been normalized.
C16_Witness ==
    /\ KfDone
    /\ gif.Delay = <<10, 0, 20>>
    /\ kf.frameCount = 3
    /\ kf.delays[2] = 10
    /\ kf.total = 40

\* C17: for N >= 1 frames the windows [on_i, off_i) satisfy on_0 = 0,
\* off_i = on_(i+1), on_i < off_i and off_(N-1) = 100, with on_i the sum of
\* the normalized delays before i over the total, times 100, and off_i the
\* sum through i; frame i is shown at on_i; delays [10,10,20] give windows
\* 0-25, 25-50, 50-100.
C17_Timeline ==
    KfDone =>
        LET n == kf.frameCount
            w == kf.windows
            tot == SumTo(gif.Delay, n)
        IN  /\ w[1].on.num = 0
            /\ \A i \in 1 .. n - 1 : w[i].off = w[i + 1].on
            /\ \A i \in 1 .. n :
                  /\ w[i].on.den = tot /\ w[i].off.den = tot /\ tot > 0
                  /\ w[i].on.num < w[i].off.num
                  /\ w[i].on.num = SumTo(gif.Delay, i - 1) * 100
                  /\ w[i].off.num = SumTo(gif.Delay, i) * 100
                  /\ \E k \in DOMAIN allKeyframes[i] :
                        allKeyframes[i][k]
                          = [Percent |-> sprintfPct(w[i].on, kf.tie[i - 1]),
                             Opacity |-> 1]
            /\ w[n].off.num = 100 * w[n].off.den
            /\ kf.delays = <<10, 10, 20>> =>
                  /\ \A i \in 1 .. 3 : w[i].on.den = 40
                  /\ w[1].on.num = 0 /\ w[1].off.num = 25 * 40
                  /\ w[2].on.num = 25 * 40 /\ w[2].off.num = 50 * 40
                  /\ w[3].on.num = 50 * 40 /\ w[3].off.num = 100 * 40
                  /\ allKeyframes[2][2].Percent
                       = <<"2", "5", ".", "0", "0", "0", "0", "%">>

\* Three frames with normalized delays [10,10,20], the second frame's
\* keyframes being 0% hidden, 25% shown, 50% hidden, 100% hidden.
C17_Witness ==
    /\ KfDone
    /\ kf.frameCount = 3
    /\ kf.delays = <<10, 10, 20>>
    /\ Len(allKeyframes[2]) = 4
    /\ allKeyframes[2][3]
         = [Percent |-> <<"5", "0", ".", "0", "0", "0", "0", "%">>, Opacity |-> 0]

\* ------------------------------------------------------------------------
\* Errors of Convert and ConvertGIF.

ApiDone == apc = "done"

CancelErrors == {"context canceled", "context deadline exceeded"}

\* No scaling, compositing or meshing step has run and nothing is written.
NothingRan ==
    /\ steps = NoSteps
    /\ snaps = <<>>
    /\ results = <<>>
    /\ pc = "idle"
    /\ out = <<>>

\* The error the argument checks call for, "none" when the arguments pass.
ArgumentError ==
    IF fn = "Convert"
    THEN IF src.nil THEN "ErrNilImage"
         ELSE IF wr = "nil" THEN "ErrNilWriter" ELSE "none"
    ELSE IF gif.nil THEN "ErrNilGIF"
         ELSE IF wr = "nil" THEN "ErrNilWriter"
         ELSE IF gif.Image = <<>> THEN "ErrNoFrames" ELSE "none"

\* C11: Convert returns ErrNilImage for a nil img and ErrNilWriter for a
\* non-nil img with a nil w; ConvertGIF returns ErrNilGIF for a nil g,
\* otherwise ErrNilWriter for a nil w, otherwise ErrNoFrames for zero
\* frames; whatever the context and the dimensions are, and with no
\* scaling, compositing or meshing step run, no poll made, nothing written.
C11_ArgumentChecks ==
    /\ apc # "start" /\ ArgumentError # "none" =>
          /\ ApiDone
          /\ ret = ArgumentError
          /\ NothingRan
          /\ polls = <<>>
    /\ ret \in {"ErrNilImage", "ErrNilGIF", "ErrNilWriter", "ErrNoFrames"}
          => ret = ArgumentError

\* ConvertGIF has returned ErrNoFrames for a GIF that declares no canvas
\* size, under a context cancelled before the call.
C11_Witness ==
    /\ ApiDone
    /\ ret = "ErrNoFrames"
    /\ ctxErr \in CancelErrors
    /\ cancelPos.apc = "start"
    /\ gif.Config.Width = 0

\* C12 as stated: on every execution that ends in ErrInvalidDimensions or
\* ErrNoFrames no frame has been drawn onto the canvas, no snapshot has been
\* taken and no meshing step has executed.
C12_NoCoreBeforeError ==
    ret \in {"ErrInvalidDimensions", "ErrNoFrames"} =>
        /\ steps.draw = 0
        /\ steps.snapshot = 0
        /\ snaps = <<>>
        /\ steps.mesh = 0

\* The canvas ConvertGIF works on, as compositeFrames sizes it: the declared
\* size, or when either declared dimension is zero the rectangle from the
\* origin to the Max corner of the first raw frame's bounds (b.Max.X by
\* b.Max.Y, not b.Dx() by b.Dy()).
EffectiveCanvas ==
    IF gif.Config.Width # 0 /\ gif.Config.Height # 0
    THEN <<gif.Config.Width, gif.Config.Height>>
    ELSE <<gif.Image[1].Max[1], gif.Image[1].Max[2]>>

\* The width and height of the first raw frame's own bounds.
FirstFrameBounds == <<Dx(gif.Image[1]), Dy(gif.Image[1])>>

\* The effective canvas in the words of C13: the declared size, or the first
\* raw frame's bounds when either declared dimension is zero.
DeclaredOrFrameBounds ==
    IF gif.Config.Width # 0 /\ gif.Config.Height # 0
    THEN <<gif.Config.Width, gif.Config.Height>>
    ELSE FirstFrameBounds

\* The image or canvas has zero width or zero height.
ZeroSized ==
    IF fn = "Convert" THEN src.Max[1] = src.Min[1] \/ src.Max[2] = src.Min[2]
    ELSE EffectiveCanvas[1] = 0 \/ EffectiveCanvas[2] = 0

\* C13 as stated: with non-nil arguments, at least one frame and a context
\* that is not cancelled, ConvertGIF returns ErrInvalidDimensions if and only
\* if the declared size, or the first raw frame's bounds when either declared
\* dimension is zero, has zero width or height; Convert if and only if the
\* image has.
C13_FrameBoundsCanvas ==
    ApiDone /\ ArgumentError = "none" /\ ctxErr = "nil" =>
        (ret = "ErrInvalidDimensions"
           <=> IF fn = "Convert" THEN Dx(src) = 0 \/ Dy(src) = 0
               ELSE DeclaredOrFrameBounds[1] = 0 \/ DeclaredOrFrameBounds[2] = 0)

\* C13 amended: with non-nil arguments, at least one frame and a context that
\* is not cancelled, ConvertGIF returns ErrInvalidDimensions if and only if
\* the canvas has zero width or height, the canvas being the declared size or,
\* when either declared dimension is zero, the rectangle from the origin to
\* the Max corner of the first raw frame's bounds; Convert if and only if the
\* image has. Under a cancelled context the error still implies it.
C13_InvalidDimensions ==
    ApiDone /\ ArgumentError = "none" =>
        /\ ret = "ErrInvalidDimensions" => ZeroSized
        /\ ctxErr = "nil" /\ ZeroSized => ret = "ErrInvalidDimensions"

\* ConvertGIF has returned without error for a GIF that declares no canvas
\* size and whose first frame is empty away from the origin: its bounds have
\* zero width, the canvas built from their Max corner has not.
C13_Witness ==
    /\ ApiDone
    /\ fn = "ConvertGIF"
    /\ ArgumentError = "none"
    /\ ctxErr = "nil"
    /\ gif.Config.Width = 0
    /\ FirstFrameBounds[1] = 0
    /\ EffectiveCanvas[1] >= 1 /\ EffectiveCanvas[2] >= 1
    /\ ret = "nil"

\* Whenever the call ends with a cancellation error nothing has been
\* written, and every buildTable call that returned an error returned nil
\* rows; a write happens only on the way to a nil return.
NoPartialOutput ==
    /\ ret \in CancelErrors => out = <<>>
    /\ \A k \in DOMAIN results :
          results[k].err # "nil" => results[k].rows = <<>>
    /\ out # <<>> => ret = "nil" /\ Len(out) = 1

\* The context was cancelled before the call.
CancelledBefore == cancelPos.pc # "never" /\ cancelPos.apc = "start"

\* C14 as stated: no partial output on a cancellation error, and a context
\* cancelled before the call always yields the cancellation error.
C14_AlwaysCancelled ==
    /\ NoPartialOutput
    /\ ApiDone /\ CancelledBefore => ret = ctxErr

\* C14 amended: no partial output on a cancellation error, and a context
\* cancelled before the call yields the cancellation error whenever the
\* arguments pass the nil and frame-count checks.
C14_NoPartialOutput ==
    /\ NoPartialOutput
    /\ ApiDone /\ CancelledBefore /\ ArgumentError = "none" => ret = ctxErr

\* ConvertGIF has ended with a cancellation error that buildTable returned
\* with nil rows after an earlier frame had been meshed completely.
C14_Witness ==
    /\ ApiDone
    /\ ret \in CancelErrors
    /\ Len(frames) >= 1
    /\ results[Len(results)].err = ret
    /\ results[Len(results)].rows = <<>>
    /\ out = <<>>

\* Convert has ended with the cancellation error of a context cancelled
\* before the call, for an image without pixels.
C14_CancelledBefore ==
    /\ ApiDone
    /\ CancelledBefore
    /\ fn = "Convert"
    /\ ret \in CancelErrors
    /\ src.Max = <<0, 0>>

\* C20 as stated: a cancellation requested while the frames are being
\* composited onto the canvas is observed within at most 5 further
\* composited frames and aborts the conversion.
C20_CompositePolls ==
    cancelPos.pc # "never" /\ cancelPos.apc \in {"compositeFrames", "compositeLoop"} =>
        /\ Len(snaps) - cancelPos.snaps <= 5
        /\ ApiDone => ret = ctxErr

\* ------------------------------------------------------------------------
\* Disposal.

\* compositeFrames has drawn and snapshotted every frame.
Composited == apc = "compositeLoop" /\ fi = Len(gif.Image)

\* A fully transparent canvas composited only with raw frame i (from 1).
AloneOnCanvas(i) ==
    LET sz == <<gif.Config.Width, gif.Config.Height>>
    IN  [p \in RectPoints(<<0, 0>>, sz) |->
            IF p \in DOMAIN gif.Image[i].pix /\ gif.Image[i].pix[p].A = 255
            THEN gif.Image[i].pix[p] ELSE Transparent]

\* C15 as stated: for a 2-frame sequence whose frame 0 carries the Previous
\* disposal, the resolved grid of frame 1 is a fully transparent canvas
\* composited only with frame 1's own raw pixels.
C15_PreviousOnFirst ==
    /\ Composited
    /\ Len(gif.Image) = 2
    /\ Len(gif.Disposal) >= 1
    /\ gif.Disposal[1] = DisposalPrevious
    => snaps[2].pix = AloneOnCanvas(2)

-----------------------------------------------------------------------------
\* Snapshots and disposal directives.  Frames are counted from 1 here:
\* frame j of this section is the source's frame j - 1.

\* The loop of compositeFrames has finished j >= 1 iterations: snaps[j] is
\* the last snapshot and canvas is the canvas after frame j's disposal.
InLoop == apc = "compositeLoop" /\ fi >= 1 /\ Len(snaps) = fi

\* The disposal directive of frame j, -1 when the list has no entry for it.
DirectiveOf(j) == IF j <= Len(gif.Disposal) THEN gif.Disposal[j] ELSE -1

\* Frame j's bounding rectangle.
BoundsOf(j) == DOMAIN gif.Image[j].pix

\* Raw frame j drawn source-over onto the grid base (the frames' pixels
\* are either opaque or fully transparent).
DrawnOver(base, j) ==
    [p \in DOMAIN base |->
        IF p \in BoundsOf(j) /\ gif.Image[j].pix[p].A = 255
        THEN gif.Image[j].pix[p] ELSE base[p]]

\* The canvas's rectangle.
CanvasPoints == RectPoints(<<0, 0>>, <<gif.Config.Width, gif.Config.Height>>)

\* C22: a step of compositeFrames never changes the pixels of a snapshot
\* already appended, whatever it draws or disposes, and when the loop has
\* ended there are exactly N snapshots, each over the whole canvas.
C22_SnapshotsIndependent ==
    [][ /\ \A k \in DOMAIN snaps :
              k \in DOMAIN snaps' /\ snaps'[k].pix = snaps[k].pix
        /\ Composited' =>
              /\ Len(snaps') = Len(gif'.Image)
              /\ \A k \in DOMAIN snaps' :
                    /\ snaps'[k].Min = <<0, 0>>
                    /\ snaps'[k].Max = <<gif'.Config.Width, gif'.Config.Height>>
                    /\ DOMAIN snaps'[k].pix = CanvasPoints' ]_vars

\* Three frames composited, the three snapshots pairwise different, and the
\* canvas changed by the last disposal after the last snapshot was taken.
C22_Witness ==
    /\ Composited
    /\ Len(snaps) = 3
    /\ snaps[1].pix # snaps[2].pix
    /\ snaps[2].pix # snaps[3].pix
    /\ snaps[1].pix # snaps[3].pix
    /\ canvas.pix # snaps[3].pix
    /\ DirectiveOf(1) = DisposalBackground

\* Frame j's directive is None, some value other than Background and
\* Previous, or missing.
LeavesCanvas(j) == DirectiveOf(j) \notin {DisposalBackground, DisposalPrevious}

\* C23: when frame j's directive is None, another value that is neither
\* Background nor Previous, or missing, the canvas after the snapshot is the
\* snapshot, and the next resolved grid is that snapshot with the next raw
\* frame drawn over it inside the frame's bounds, equal to it outside them.
C23_CanvasKept ==
    InLoop =>
      \A j \in 1 .. Len(snaps) :
        LeavesCanvas(j) =>
          /\ j = fi => canvas.pix = snaps[j].pix
          /\ j < Len(snaps) =>
                /\ snaps[j + 1].pix = DrawnOver(snaps[j].pix, j + 1)
                /\ \A p \in CanvasPoints \ BoundsOf(j + 1) :
                      snaps[j + 1].pix[p] = snaps[j].pix[p]

\* Frame 1 carries None, frames 2 and 3 have no directive, frame 2 covers
\* only part of the canvas, and the three resolved grids differ.
C23_Witness ==
    /\ InLoop
    /\ Len(snaps) = 3
    /\ gif.Disposal = <<DisposalNone>>
    /\ BoundsOf(2) # CanvasPoints
    /\ snaps[1].pix # snaps[2].pix
    /\ snaps[2].pix # snaps[3].pix
    /\ \E p \in CanvasPoints \ BoundsOf(2) : snaps[2].pix[p] # Transparent

\* A directive that is neither None, Background nor Previous is handled as
\* None: three frames, frame 1 with the unspecified value 0.
C23_WitnessOther ==
    /\ InLoop
    /\ Len(snaps) = 3
    /\ DirectiveOf(1) = 0
    /\ snaps[1].pix # snaps[2].pix
    /\ snaps[1].pix # [p \in CanvasPoints |-> Transparent]

\* C24: when frame j's directive is Background, the canvas after the
\* snapshot is transparent inside frame j's rectangle and the snapshot
\* outside it; when frame j covers the canvas, the next resolved grid is the
\* next raw frame over transparency.
C24_Background ==
    InLoop =>
      \A j \in 1 .. Len(snaps) :
        DirectiveOf(j) = DisposalBackground =>
          /\ j = fi =>
                \A p \in CanvasPoints :
                    canvas.pix[p] =
                        IF p \in BoundsOf(j) THEN Transparent
                        ELSE snaps[j].pix[p]
          /\ j < Len(snaps) /\ BoundsOf(j) = CanvasPoints =>
                snaps[j + 1].pix = AloneOnCanvas(j + 1)

\* Frame 1 covers the canvas and is cleared, so that frame 2's grid differs
\* from frame 2 drawn over frame 1; frame 3 covers part of the canvas and
\* its clearing leaves a coloured pixel outside its rectangle.
C24_Witness ==
    /\ InLoop
    /\ fi = 3
    /\ DirectiveOf(1) = DisposalBackground
    /\ BoundsOf(1) = CanvasPoints
    /\ snaps[2].pix # DrawnOver(snaps[1].pix, 2)
    /\ DirectiveOf(3) = DisposalBackground
    /\ \E p \in CanvasPoints \ BoundsOf(3) : canvas.pix[p] # Transparent
    /\ \E p \in BoundsOf(3) : snaps[3].pix[p] # Transparent

\* C25: when frame j >= 2 carries Previous, the canvas after the snapshot
\* is the snapshot of frame j - 1 and the next resolved grid is that
\* snapshot with the next raw frame drawn over it; on frame 1 the directive
\* does nothing and the canvas keeps frame 1's pixels.
C25_Previous ==
    InLoop =>
      \A j \in 1 .. Len(snaps) :
        DirectiveOf(j) = DisposalPrevious =>
          /\ j = fi /\ j >= 2 => canvas.pix = snaps[j - 1].pix
          /\ j < Len(snaps) /\ j >= 2 =>
                snaps[j + 1].pix = DrawnOver(snaps[j - 1].pix, j + 1)
          /\ j = fi /\ j = 1 => canvas.pix = snaps[1].pix
          /\ j < Len(snaps) /\ j = 1 =>
                snaps[2].pix = DrawnOver(snaps[1].pix, 2)

\* Frame 1 is cleared by Background after its snapshot, frame 2 carries
\* Previous: frame 3's grid is built on snapshot 1, which differs from
\* building it on snapshot 2 and from frame 3 alone.
C25_Witness ==
    /\ InLoop
    /\ Len(snaps) = 3
    /\ DirectiveOf(1) = DisposalBackground
    /\ DirectiveOf(2) = DisposalPrevious
    /\ snaps[3].pix # DrawnOver(snaps[2].pix, 3)
    /\ snaps[3].pix # AloneOnCanvas(3)
    /\ snaps[1].pix # snaps[2].pix

\* Previous on frame 1 of two frames: frame 2's grid keeps a pixel of
\* frame 1.
C25_WitnessFirst ==
    /\ InLoop
    /\ Len(snaps) = 2
    /\ DirectiveOf(1) = DisposalPrevious
    /\ snaps[2].pix # AloneOnCanvas(2)

-----------------------------------------------------------------------------
\* Keyframe lists and their reading as step functions.

ZeroPercent == <<"0", "%">>

HundredPercent == <<"1", "0", "0", "%">>

\* Frame i (from 1) is shown after the start of the timeline.
StartsLater(i) == kf.windows[i].on.num > 0

\* Frame i (from 1) is hidden before the end of the timeline.
EndsEarlier(i) == kf.windows[i].off.num < 100 * kf.windows[i].off.den

\* C26: frame i's keyframe list is an opacity-0 keyframe at 0% exactly
\* when onPercent > 0, then an opacity-1 keyframe at onPercent, then an
\* opacity-0 keyframe at offPercent exactly when offPercent < 100, then a
\* keyframe at 100% of opacity 1 for the last frame and 0 for the others;
\* every frame but the last has the keyframe at offPercent.
C26_KeyframeList ==
    KfDone =>
      \A i \in 1 .. kf.frameCount :
        LET L == allKeyframes[i]
            w == kf.windows[i]
            z == IF StartsLater(i) THEN 1 ELSE 0
            o == IF EndsEarlier(i) THEN 1 ELSE 0
        IN  /\ Len(L) = 2 + z + o
            /\ StartsLater(i) <=> L[1] = [Percent |-> ZeroPercent, Opacity |-> 0]
            /\ L[z + 1] = [Percent |-> sprintfPct(w.on, kf.tie[i - 1]),
                            Opacity |-> 1]
            /\ EndsEarlier(i) <=>
                  L[Len(L) - 1] = [Percent |-> sprintfPct(w.off, kf.tie[i]),
                                   Opacity |-> 0]
            /\ L[Len(L)] = [Percent |-> HundredPercent,
                            Opacity |-> IF i = kf.frameCount THEN 1 ELSE 0]
            /\ i < kf.frameCount => EndsEarlier(i)
            /\ i = kf.frameCount => ~EndsEarlier(i)
            /\ \A k \in 1 .. Len(L) - 1 : L[k].Percent # HundredPercent

\* Three frames: the first has no keyframe at 0%, the second has all
\* four keyframes, the last has no keyframe at offPercent.
C26_Witness ==
    /\ KfDone
    /\ kf.frameCount = 3
    /\ Len(allKeyframes[1]) = 3
    /\ Len(allKeyframes[2]) = 4
    /\ Len(allKeyframes[3]) = 3
    /\ allKeyframes[1][1].Opacity = 1
    /\ allKeyframes[3][1].Opacity = 0

\* The value of a decimal digit.
digitVal(ch) == CHOOSE d \in 0 .. 9 : DecDigits[d + 1] = ch

RECURSIVE digitsVal(_)
digitsVal(ds) ==
    IF ds = <<>> THEN 0
    ELSE digitsVal(SubSeq(ds, 1, Len(ds) - 1)) * 10 + digitVal(ds[Len(ds)])

\* A keyframe's percent in units of 0.0001%: the text is either digits
\* and "%", or digits, ".", four digits and "%".
pctUnits(t) ==
    IF \E k \in DOMAIN t : t[k] = "."
    THEN digitsVal(SubSeq(t, 1, Len(t) - 6)) * 10000
            + digitsVal(SubSeq(t, Len(t) - 4, Len(t) - 1))
    ELSE digitsVal(SubSeq(t, 1, Len(t) - 1)) * 10000

\* 100% in units of 0.0001%.
FullUnits == 100 * 10000

\* Hold reading: frame i (from 1) is visible at p when the last keyframe
\* of its list at or before p has opacity 1.
VisibleAt(i, p) ==
    LET L == allKeyframes[i]
        ks == { k \in DOMAIN L : pctUnits(L[k].Percent) <= p }
    IN  ks # {} /\ L[Max(ks)].Opacity = 1

\* The percents at which some frame's visibility can change, and their
\* neighbours one unit below and above.
ProbePoints ==
    LET at == { { pctUnits(allKeyframes[i][k].Percent) :
                    k \in DOMAIN allKeyframes[i] } : i \in DOMAIN allKeyframes }
        pts == UNION { { q - 1, q, q + 1 } : q \in UNION at }
    IN  { q \in pts : 0 <= q /\ q <= FullUnits }

\* p lies in frame i's exact window: onPct <= p < offPct.
InExactWindow(i, p) ==
    LET w == kf.windows[i]
    IN  /\ w.on.num * 10000 <= p * w.on.den
        /\ p * w.off.den < w.off.num * 10000

\* The percent of boundary b, between frames b and b + 1 (from 1), as it
\* is written in a keyframe: rounded to four decimals.
writtenUnits(b) ==
    pctUnits(sprintfPct(IF b = 0 THEN kf.windows[1].on ELSE kf.windows[b].off,
                        kf.tie[b]))

\* p lies in frame i's window as written in its keyframes.
InWrittenWindow(i, p) ==
    /\ writtenUnits(i - 1) <= p
    /\ p < writtenUnits(i)

VisibleFrames(p) == { i \in 1 .. kf.frameCount : VisibleAt(i, p) }

\* C29 as stated: under the hold reading, at every p with 0 <= p < 100 the
\* one visible frame is the frame whose exact window on_i <= p < off_i
\* holds p, and at p = 100 only the last frame is visible.
C29_ExactWindows ==
    KfDone =>
      \A p \in ProbePoints :
        IF p < FullUnits
        THEN VisibleFrames(p) = { i \in 1 .. kf.frameCount : InExactWindow(i, p) }
        ELSE VisibleFrames(p) = { kf.frameCount }

\* C29, amended: under the hold reading, at every p with 0 <= p < 100
\* exactly one frame is visible, the frame whose window as written in the
\* keyframes (onPercent and offPercent rounded to four decimals, each within
\* 0.00005 of the exact value) holds p; at p = 100 exactly the last frame is
\* visible; a single frame's keyframes all have opacity 1; each list's
\* percents are non-decreasing.
C29_Hold ==
    KfDone =>
      /\ \A p \in ProbePoints :
            IF p < FullUnits
            THEN /\ Cardinality(VisibleFrames(p)) = 1
                 /\ VisibleFrames(p)
                      = { i \in 1 .. kf.frameCount : InWrittenWindow(i, p) }
            ELSE VisibleFrames(p) = { kf.frameCount }
      /\ \A i \in 1 .. kf.frameCount :
            LET w == kf.windows[i]
                L == allKeyframes[i]
            IN  /\ 2 * (writtenUnits(i - 1) * w.on.den - w.on.num * 10000) <= w.on.den
                /\ 2 * (w.on.num * 10000 - writtenUnits(i - 1) * w.on.den) <= w.on.den
                /\ 2 * (writtenUnits(i) * w.off.den - w.off.num * 10000) <= w.off.den
                /\ 2 * (w.off.num * 10000 - writtenUnits(i) * w.off.den) <= w.off.den
                /\ \A k \in 1 .. Len(L) - 1 :
                      pctUnits(L[k].Percent) <= pctUnits(L[k + 1].Percent)
      /\ kf.frameCount = 1 =>
            \A k \in DOMAIN allKeyframes[1] : allKeyframes[1][k].Opacity = 1

\* Three frames of equal delay: the boundary 33.3333...% is written as
\* 33.3333%, where the second frame is already visible and the first is not.
C29_Witness ==
    /\ KfDone
    /\ kf.frameCount = 3
    /\ kf.delays = <<10, 10, 10>>
    /\ VisibleFrames(333333) = {2}
    /\ VisibleFrames(333332) = {1}
    /\ VisibleFrames(FullUnits) = {3}
    /\ InExactWindow(1, 333333)

-----------------------------------------------------------------------------
\* The two vertical expansions, and the layout read back as a table.

\* C27: at every anchor the color-only expandHeight returns what the
\* expansion that also requires unvisited pixels returns on the mask of
\* that moment, and no pixel of the anchor's width strip on a lower row is
\* visited when the anchor is reached.
C27_VisitedCheckRedundant ==
    \A i \in AnchorIdx :
        LET a == anchors[i]
            c == colorAt(img, a.x, a.y)
        IN  /\ ~a.mask[a.y][a.x]
            /\ a.cell.Rowspan
                 = expandHeightInlined(img, a.mask, a.x, a.y, a.cell.Colspan,
                                       height, c)
            /\ expandHeight(img, a.x, a.y, a.cell.Colspan, height, c)
                 = expandHeightInlined(img, a.mask, a.x, a.y, a.cell.Colspan,
                                       height, c)
            /\ \A k \in 0 .. a.cell.Colspan - 1 :
                  \A ry \in a.y + 1 .. height - 1 : ~a.mask[ry][a.x + k]

\* An anchor that merges at least two rows and is reached while pixels of
\* lower rows, in other columns, are already visited.
C27_Witness ==
    \E i \in AnchorIdx :
        LET a == anchors[i]
        IN  /\ a.cell.Rowspan >= 2
            /\ \E ry \in a.y + 1 .. height - 1 :
                  \E rx \in 0 .. width - 1 : a.mask[ry][rx]

\* Table-flow placement of the cells k.. of row ry: each cell goes to the
\* leftmost column of the row that no placed cell occupies.  st holds the
\* occupied points, the placements so far, and whether a placement has
\* covered an occupied point.
RECURSIVE placeCells(_, _, _, _)
placeCells(cells, k, ry, st) ==
    IF k > Len(cells) THEN st
    ELSE LET cell == cells[k]
             col == Min({ cx \in 0 .. 2 * width : <<cx, ry>> \notin st.occ })
             rect == (col .. col + cell.Colspan - 1)
                        \X (ry .. ry + cell.Rowspan - 1)
         IN  placeCells(cells, k + 1, ry,
                [occ |-> st.occ \cup rect,
                 placed |-> Append(st.placed,
                                   [x |-> col, y |-> ry, cell |-> cell]),
                 overlap |-> st.overlap \/ (rect \cap st.occ # {})])

\* The rows ry.. of a layout placed in order.
RECURSIVE placeRows(_, _, _)
placeRows(lay, ry, st) ==
    IF ry \notin DOMAIN lay THEN st
    ELSE placeRows(lay, ry + 1, placeCells(lay[ry], 1, ry, st))

\* The replay of a whole layout on an empty table.
Replay(lay) == placeRows(lay, 0, [occ |-> {}, placed |-> <<>>, overlap |-> FALSE])

\* C28: replaying the returned rows with table-flow placement puts every
\* cell at the anchor it was emitted at, covers no point twice, occupies
\* exactly the W columns of each of the H rows, and gives every pixel a cell
\* whose color text is the pixel's RGB.
C28_LayoutDeterminesGrid ==
    Completed =>
        LET r == Replay(Layout)
        IN  /\ r.placed = [i \in DOMAIN anchors |->
                             [x |-> anchors[i].x, y |-> anchors[i].y,
                              cell |-> anchors[i].cell]]
            /\ ~r.overlap
            /\ r.occ = Coords(width, height)
            /\ \A q \in Coords(width, height) :
                  \E i \in DOMAIN r.placed :
                      /\ q \in RectOf(r.placed[i])
                      /\ parseColor(r.placed[i].cell.Color)
                           = colorAt(img, q[1], q[2])

\* A returned layout in which a cell of a lower row is placed to the right
\* of a cell that spans down from an earlier row into the row's column 0.
C28_Witness ==
    /\ Completed
    /\ \E i \in DOMAIN Replay(Layout).placed :
          LET q == Replay(Layout).placed[i]
          IN  /\ q.y >= 1
              /\ q.x >= 1
              /\ \E j \in 1 .. i - 1 :
                    LET e == Replay(Layout).placed[j]
                    IN  e.y < q.y /\ <<0, q.y>> \in RectOf(e)

-----------------------------------------------------------------------------
\* Grid dimensions reaching buildTable.

\* The argument of the last option named n with a positive argument, d
\* when there is none among the first k options.
RECURSIVE LastPositive(_, _, _, _)
LastPositive(opts, n, k, d) ==
    IF k = 0 THEN d
    ELSE IF opts[k].opt = n /\ opts[k].v > 0 THEN opts[k].v
    ELSE LastPositive(opts, n, k - 1, d)

\* a / b rounded to the nearest integer, a half rounded up.
RoundDiv(a, b) ==
    CHOOSE h \in 0 .. (a \div b) + 1 :
        2 * b * h - b <= 2 * a /\ 2 * a < 2 * b * h + b

\* Width and height of the source that is scaled.
OrigSize ==
    IF fn = "Convert" THEN <<Dx(src), Dy(src)>> ELSE EffectiveCanvas

\* The grid that has reached buildTable is at least 1x1 and of the target
\* size; a zero-sized source reaches no buildTable.
GridAtLeastOne ==
    apc # "New" =>
        /\ conv.targetWidth >= 1
        /\ conv.targetHeight >= 0
        /\ steps.mesh >= 1 =>
              /\ width >= 1
              /\ height >= 1
              /\ width = conv.targetWidth
              /\ height =
                   IF conv.targetHeight # 0 THEN conv.targetHeight
                   ELSE Max({1, RoundDiv(OrigSize[2] * conv.targetWidth,
                                         OrigSize[1])})
        /\ ZeroSized =>
              /\ steps.mesh = 0
              /\ pc = "idle"
              /\ results = <<>>
              /\ ApiDone => ret = "ErrInvalidDimensions"

\* New leaves in targetWidth and targetHeight the last positive argument
\* given for each, or the default when there is none.
OptionsApplied ==
    apc = "New" =>
        /\ conv'.targetWidth
             = LastPositive(conv.opts, "WithTargetWidth", Len(conv.opts),
                            DefaultTargetWidth)
        /\ conv'.targetHeight
             = LastPositive(conv.opts, "WithTargetHeight", Len(conv.opts), 0)

\* C21: after New with any options targetWidth is >= 1, non-positive
\* WithTargetWidth and WithTargetHeight arguments leaving the earlier value;
\* whenever buildTable has been entered from Convert or ConvertGIF the grid
\* is targetWidth wide and targetHeight high, or when targetHeight is 0 as
\* high as round(origH * targetW / origW) raised to 1, so both are >= 1; a
\* zero-sized source ends in ErrInvalidDimensions without buildTable.
C21_GridAtLeastOne == []GridAtLeastOne /\ [][OptionsApplied]_vars

\* Convert of the 4x1 image by a converter of target width 1 and no target
\* height has returned: the proportional height round(1/4) = 0 was raised,
\* and the grid meshed was 1x1.
C21_Witness ==
    /\ ApiDone
    /\ fn = "Convert"
    /\ conv.targetWidth = 1
    /\ conv.targetHeight = 0
    /\ Dx(src) = 4
    /\ ret = "nil"
    /\ steps.mesh = 1
    /\ width = 1
    /\ height = 1

\* ConvertGIF of a zero-sized canvas has returned ErrInvalidDimensions.
C21_WitnessZero ==
    /\ ApiDone
    /\ fn = "ConvertGIF"
    /\ ZeroSized
    /\ ret = "ErrInvalidDimensions"

-----------------------------------------------------------------------------
\* Alpha and color matching.

\* The three 8-bit color components of the pixel at q, alpha left out.
RGB8(q) ==
    << (img[q].R \div 256) % 256, (img[q].G \div 256) % 256,
       (img[q].B \div 256) % 256 >>

\* C30: a cell merges its anchor with the unvisited pixel to its right, and
\* a one-column cell with the pixel below, whenever the three 8-bit RGB
\* components are equal, whatever the alpha values; no cell holds two
\* pixels that differ in one of the three components.
C30_AlphaIgnored ==
    \A i \in AnchorIdx :
        LET a == anchors[i]
        IN  /\ a.x + 1 < width /\ ~a.mask[a.y][a.x + 1]
                 /\ RGB8(<<a.x + 1, a.y>>) = RGB8(<<a.x, a.y>>)
                 => a.cell.Colspan >= 2
            /\ a.cell.Colspan = 1 /\ a.y + 1 < height
                 /\ RGB8(<<a.x, a.y + 1>>) = RGB8(<<a.x, a.y>>)
                 => a.cell.Rowspan >= 2
            /\ \A q \in RectOf(a) : RGB8(q) = RGB8(<<a.x, a.y>>)
            /\ parseColor(a.cell.Color) = RGB8(<<a.x, a.y>>)

\* A cell of two pixels of equal RGB and different alpha, next to a cell
\* whose pixel has the first cell's alpha and another color.
C30_Witness ==
    /\ Completed
    /\ \E i, j \in AnchorIdx :
          LET a == anchors[i]
              b == anchors[j]
          IN  /\ a.cell.Colspan = 2
              /\ img[<<a.x, a.y>>].A # img[<<a.x + 1, a.y>>].A
              /\ b.y = a.y /\ b.x = a.x + 2
              /\ img[<<b.x, b.y>>].A = img[<<a.x, a.y>>].A
              /\ RGB8(<<b.x, b.y>>) # RGB8(<<a.x, a.y>>)

====
